---------------------------- MODULE Spec2Model ----------------------------
(***************************************************************************)
(* A model of the concurrent queue of davidstone/concurrent.               *)
(*                                                                         *)
(* The repository holds three generations of the same queue engine:       *)
(*   "module"  src/source/queue.cpp              (C++ module, std)         *)
(*   "header"  src/include/concurrent/queue.hpp  (header, std)             *)
(*   "boost"   src/include/boost/concurrent/queue.hpp (header, boost)      *)
(* They share the locking protocol and differ in the choice between       *)
(* notify_one and notify_all after an add, in the policies they offer      *)
(* (only "boost" has the dropping queue) and in the operations they offer  *)
(* (only "module" and "header" have non_blocking_* adds).                  *)
(*                                                                         *)
(* Every thread is a small state machine over the statements of the       *)
(* operation it is executing.  A step that runs under the mutex is one     *)
(* action; acquiring the mutex, waiting on a condition variable, being     *)
(* woken and notifying after the unlock are steps of their own.            *)
(***************************************************************************)
EXTENDS Integers, Sequences, FiniteSets, TLC

\* ------------------------------------------------------------------ bounds

\* Operations a thread may start.
MaxCalls == 2
\* Largest batch handed to append (0 is the empty batch).
MaxBatch == 2
\* Largest max_size of a bounded queue.
MaxBound == 2
\* Spurious wakeups the condition variables may produce in one run.
MaxSpurious == 1

\* ------------------------------------------------------------------ threads

Threads == {1, 2, 3, 4}
NoThread == 0

Impls == {"module", "header", "boost"}

AddOps == {"emplace", "append"}
NonBlockingAddOps == {"non_blocking_emplace", "non_blocking_append"}
AllAddOps == AddOps \cup NonBlockingAddOps
BlockingPopOps == {"pop_all", "pop_one"}
TryPopOps == {"try_pop_all", "try_pop_one"}
PopAllOps == {"pop_all", "try_pop_all"}
PopOneOps == {"pop_one", "try_pop_one"}
AllPopOps == BlockingPopOps \cup TryPopOps
\* The pops that take a timeout (a duration or a deadline) or a stop token.
TimedPopOps == {"pop_all_timed", "pop_one_timed"}
TokenPopOps == {"pop_all_token", "pop_one_token"}
AbortablePopOps == TimedPopOps \cup TokenPopOps
WaitingPopOps == BlockingPopOps \cup AbortablePopOps
SwappingOps == PopAllOps \cup {"pop_all_timed", "pop_all_token"}
FrontPopOps == PopOneOps \cup {"pop_one_timed", "pop_one_token"}
ObserverOps == {"size", "reserve"}
NoOp == "none"

VARIABLES
    cfg,                \* the queue type and the workload, fixed at construction
    m_container,        \* basic_queue_impl::m_container
    m_mutex,            \* basic_queue_impl::m_mutex: its owner, or NoThread
    m_notify_addition,  \* threads blocked in a wait on m_notify_addition
    m_notify_removal,   \* threads blocked in a wait on m_notify_removal
    pc,                 \* where each thread is in its operation
    op,                 \* the operation each thread is executing / executed last
    arg,                \* the elements an add was called with
    storage,            \* pop_all's storage parameter, then its return value
    was_empty,          \* generic_add_impl's local was_empty
    ret,                \* what the last completed operation returned
    calls,              \* operations started, per thread
    abort,              \* whether the deadline of a thread's pop has passed or
                        \* a stop has been requested on its token
    suspended,          \* history: whether a thread's operation has blocked on
                        \* a condition variable
    spurious,           \* spurious wakeups so far
    inserted,           \* history: every element inserted, in insertion order
    delivered,          \* history: every element returned by a pop, in order
    discarded,          \* history: elements removed by clear()
    dropped,            \* history: elements removed by the dropping policy
    signal,             \* the notification the last step issued, if any
    moved_to,           \* the queue move-constructed from this one, if any
    moved_from          \* history: who owned m_mutex and who waited on the
                        \* condition variables when the queue was moved from

vars == <<cfg, m_container, m_mutex, m_notify_addition, m_notify_removal, pc,
          op, arg, storage, was_empty, ret, calls, abort, suspended,
          spurious, inserted, delivered, discarded, dropped, signal,
          moved_to, moved_from>>

queue_vars == <<m_container, m_mutex, m_notify_addition, m_notify_removal>>
history_vars == <<suspended, inserted, delivered, discarded, dropped>>

NoSignal == [cv |-> "none", all |-> FALSE, by |-> NoThread, held |-> FALSE]

\* A queue object: its container, the owner of its mutex and the threads
\* blocked on its condition variables.
Queue(container, mutex, notify_addition, notify_removal) ==
    [constructed |-> TRUE, m_container |-> container, m_mutex |-> mutex,
     m_notify_addition |-> notify_addition,
     m_notify_removal |-> notify_removal]
NoQueue == [Queue(<<>>, NoThread, {}, {}) EXCEPT !.constructed = FALSE]


\* ------------------------------------------------------------------ values

\* The i-th element of the k-th call of thread t.
Elem(t, k, i) == <<t, k, i>>
Batch(t, k, n) == [i \in 1..n |-> Elem(t, k, i)]

Void == [kind |-> "void", elems |-> <<>>, n |-> 0]
Absent == [kind |-> "none", elems |-> <<>>, n |-> 0]
Bool(b) == [kind |-> IF b THEN "true" ELSE "false", elems |-> <<>>, n |-> 0]
Value(e) == [kind |-> "value", elems |-> <<e>>, n |-> 0]
Contents(s) == [kind |-> "container", elems |-> s, n |-> 0]
Count(k) == [kind |-> "count", elems |-> <<>>, n |-> k]
Size(k) == [kind |-> "size", elems |-> <<>>, n |-> k]

\* ------------------------------------------------------------------ the code's decisions

\* is_not_empty(): the predicate of every wait on m_notify_addition.
is_not_empty(container) == container # <<>>

\* A predicate that admits an add into a full queue.
has_space_inclusive(container, max_size) == Len(container) <= max_size

\* The predicate of basic_blocking_queue::handle_add's wait.
has_space(container, max_size) == Len(container) < max_size

\* A hook that clears only a queue that holds more than max_size elements.
skipped_late(container, max_size) ==
    IF Len(container) <= max_size THEN 0 ELSE Len(container)

\* A hook that reports one skipped element whatever it cleared.
skipped_one(container, max_size) ==
    IF Len(container) < max_size THEN 0 ELSE 1

\* basic_dropping_queue::handle_add: the elements it skips.
skipped(container, max_size) ==
    IF Len(container) < max_size THEN 0 ELSE Len(container)

\* A hook that notifies only when the queue held more than max_size elements.
removal_notifies_strict(previous_size, max_size) == previous_size > max_size

\* handle_remove_all / handle_remove_one of basic_blocking_queue.
removal_notifies(previous_size, max_size) == previous_size >= max_size

\* A choice that never takes notify_all.
addition_notify_one(impl, pop_frontable, several) == FALSE

\* generic_add_impl's choice between notify_all and notify_one.  The module
\* tests pop_frontable<Container> alone, the two headers test it together with
\* adding_several.
addition_notify_all(impl, pop_frontable, several) ==
    IF impl = "module"
    THEN pop_frontable
    ELSE pop_frontable /\ several

adding_several(o) == o \in {"append", "non_blocking_append"}

\* What a condition variable's notify_one / notify_all may wake: every waiter,
\* or any one of them (none when nobody waits).
Woken(waiters, all) ==
    IF all \/ waiters = {}
    THEN {waiters}
    ELSE {{w} : w \in waiters}

Bounded == cfg.policy \in {"blocking", "dropping"}


\* ------------------------------------------------------------------ calls

\* Entry points at which try_pop_all and try_pop_one wait for data.
Entry_waiting(o) ==
    CASE o \in AddOps -> "generic_add"
      [] o \in NonBlockingAddOps -> "generic_non_blocking_add"
      [] o \in WaitingPopOps \cup TryPopOps -> "wait_for_data"
      [] o = "size" -> "size"
      [] o = "reserve" -> "reserve"
      [] o = "clear" -> "clear"

\* Where an operation starts.
Entry(o) ==
    CASE o \in AddOps -> "generic_add"
      [] o \in NonBlockingAddOps -> "generic_non_blocking_add"
      [] o \in WaitingPopOps -> "wait_for_data"
      [] o = "size" -> "size"
      [] o = "reserve" -> "reserve"
      [] o = "try_pop_all" -> "try_pop_all"
      [] o = "try_pop_one" -> "try_pop_one"
      [] o = "clear" -> "clear"

\* The batch sizes an add may be called with: emplace and push add one element,
\* append adds any range, the empty one included.
BatchSizes(o) == IF adding_several(o) THEN 0..MaxBatch ELSE {1}

\* A thread calls one of the operations its workload allows.
Call(t) ==
    /\ pc[t] = "idle"
    /\ calls[t] < cfg.budget[t]
    /\ \E o \in cfg.ops[t] :
        /\ op' = [op EXCEPT ![t] = o]
        /\ pc' = [pc EXCEPT ![t] = Entry(o)]
        /\ IF o \in AllAddOps
           THEN \E n \in BatchSizes(o) :
                    arg' = [arg EXCEPT ![t] = Batch(t, calls[t] + 1, n)]
           ELSE arg' = [arg EXCEPT ![t] = <<>>]
        /\ IF o \in SwappingOps
           THEN \E s \in cfg.storages : storage' = [storage EXCEPT ![t] = s]
           ELSE storage' = [storage EXCEPT ![t] = <<>>]
    /\ calls' = [calls EXCEPT ![t] = @ + 1]
    /\ ret' = [ret EXCEPT ![t] = Void]
    /\ was_empty' = [was_empty EXCEPT ![t] = FALSE]
    /\ suspended' = [suspended EXCEPT ![t] = FALSE]
    /\ signal' = NoSignal
    /\ abort' = [abort EXCEPT ![t] = FALSE]
    /\ UNCHANGED <<cfg, moved_to, moved_from, queue_vars, spurious, inserted, delivered, discarded,
                   dropped>>

\* ------------------------------------------------------------------ adding

\* generic_add: lock_type(m_mutex) blocks until the mutex is free.
generic_add(t) ==
    /\ pc[t] = "generic_add"
    /\ m_mutex = NoThread
    /\ m_mutex' = t
    /\ pc' = [pc EXCEPT ![t] = "handle_add"]
    /\ signal' = NoSignal
    /\ UNCHANGED <<cfg, moved_to, moved_from, abort, m_container, m_notify_addition, m_notify_removal, op,
                   arg, storage, was_empty, ret, calls, spurious, history_vars>>

\* lock_type(m_mutex, std::try_to_lock): whether the lock is owned afterwards.
try_to_lock(mutex) == mutex = NoThread

\* A test that returns false when the lock was obtained.
gives_up_inverted(owns_lock) == owns_lock

\* if (!lock.owns_lock()) return false;
gives_up(owns_lock) == ~owns_lock

\* generic_non_blocking_add: lock_type(m_mutex, std::try_to_lock), and false
\* when the lock is not owned.
generic_non_blocking_add(t) ==
    /\ pc[t] = "generic_non_blocking_add"
    /\ IF gives_up(try_to_lock(m_mutex))
       THEN /\ m_mutex' = m_mutex
            /\ pc' = [pc EXCEPT ![t] = "idle"]
            /\ ret' = [ret EXCEPT ![t] = Bool(FALSE)]
       ELSE /\ m_mutex' = IF try_to_lock(m_mutex) THEN t ELSE m_mutex
            /\ pc' = [pc EXCEPT ![t] = "handle_add"]
            /\ ret' = ret
    /\ signal' = NoSignal
    /\ UNCHANGED <<cfg, moved_to, moved_from, abort, m_container, m_notify_addition, m_notify_removal, op,
                   arg, storage, was_empty, calls, spurious, history_vars>>

\* A hook that waits for size < max_size under every policy.
handle_add_waiting(t) ==
    /\ pc[t] = "handle_add"
    /\ m_mutex = t
    /\ IF has_space(m_container, cfg.max_size)
       THEN /\ pc' = [pc EXCEPT ![t] = "generic_add_impl"]
            /\ UNCHANGED <<m_mutex, m_notify_removal, suspended>>
       ELSE /\ m_mutex' = NoThread
            /\ m_notify_removal' = m_notify_removal \cup {t}
            /\ pc' = [pc EXCEPT ![t] = "waiting"]
            /\ suspended' = [suspended EXCEPT ![t] = TRUE]
    /\ signal' = NoSignal
    /\ UNCHANGED <<cfg, moved_to, moved_from, abort, m_container, m_notify_addition, op, arg,
                   storage, was_empty, ret, calls, spurious, inserted,
                   delivered, discarded, dropped>>

\* A blocking hook that keeps the mutex while it waits for space.
handle_add_holding(t) ==
    /\ pc[t] = "handle_add"
    /\ m_mutex = t
    /\ IF cfg.policy = "blocking" /\ ~has_space(m_container, cfg.max_size)
       THEN /\ m_notify_removal' = m_notify_removal \cup {t}
            /\ pc' = [pc EXCEPT ![t] = "waiting"]
            /\ suspended' = [suspended EXCEPT ![t] = TRUE]
            /\ UNCHANGED <<m_container, ret, dropped>>
       ELSE /\ ret' = [ret EXCEPT ![t] =
                         IF cfg.policy = "dropping"
                         THEN Count(skipped(m_container, cfg.max_size))
                         ELSE @]
            /\ dropped' = dropped + (IF cfg.policy = "dropping"
                                     THEN skipped(m_container, cfg.max_size)
                                     ELSE 0)
            /\ m_container' = IF cfg.policy = "dropping"
                                  /\ skipped(m_container, cfg.max_size) # 0
                              THEN <<>>
                              ELSE m_container
            /\ pc' = [pc EXCEPT ![t] = "generic_add_impl"]
            /\ UNCHANGED <<m_notify_removal, suspended>>
    /\ signal' = NoSignal
    /\ UNCHANGED <<cfg, moved_to, moved_from, abort, m_mutex, m_notify_addition, op, arg, storage,
                   was_empty, calls, spurious, inserted, delivered, discarded>>

\* derived().handle_add(m_container, lock), entered with the lock held, also
\* after a wake from m_notify_removal (the wait's loop tests its predicate again).
handle_add(t) ==
    /\ pc[t] = "handle_add"
    /\ m_mutex = t
    /\ CASE cfg.policy = "unbounded" ->
              /\ pc' = [pc EXCEPT ![t] = "generic_add_impl"]
              /\ UNCHANGED <<m_container, m_mutex, m_notify_removal, ret,
                             dropped, suspended>>
         [] cfg.policy = "blocking" ->
              IF has_space(m_container, cfg.max_size)
              THEN /\ pc' = [pc EXCEPT ![t] = "generic_add_impl"]
                   /\ UNCHANGED <<m_container, m_mutex, m_notify_removal, ret,
                                  dropped, suspended>>
              ELSE /\ m_mutex' = NoThread
                   /\ m_notify_removal' = m_notify_removal \cup {t}
                   /\ pc' = [pc EXCEPT ![t] = "waiting"]
                   /\ suspended' = [suspended EXCEPT ![t] = TRUE]
                   /\ UNCHANGED <<m_container, ret, dropped>>
         [] cfg.policy = "dropping" ->
              /\ ret' = [ret EXCEPT ![t] = Count(skipped(m_container, cfg.max_size))]
              /\ dropped' = dropped + skipped(m_container, cfg.max_size)
              /\ m_container' = IF skipped(m_container, cfg.max_size) = 0
                                THEN m_container
                                ELSE <<>>
              /\ pc' = [pc EXCEPT ![t] = "generic_add_impl"]
              /\ UNCHANGED <<m_mutex, m_notify_removal, suspended>>
    /\ signal' = NoSignal
    /\ UNCHANGED <<cfg, moved_to, moved_from, abort, m_notify_addition, op, arg, storage, was_empty, calls,
                   spurious, inserted, delivered, discarded>>

\* An insertion at the front.
add_front(container, elements) == elements \o container

\* The elements add() leaves in the container: containers::append and
\* containers::emplace_back insert at the end.
add(container, elements) == container \o elements

Range(s) == {s[j] : j \in 1..Len(s)}

\* An add that takes the lock once for each element of its batch instead of
\* once for the batch.
generic_add_impl_per_element(t) ==
    LET rest == SelectSeq(arg[t], LAMBDA e : e \notin Range(inserted))
        one == IF rest = <<>> THEN <<>> ELSE <<rest[1]>>
    IN  /\ pc[t] = "generic_add_impl"
        /\ m_mutex = t
        /\ was_empty' = [was_empty EXCEPT ![t] = ~is_not_empty(m_container)]
        /\ m_container' = add(m_container, one)
        /\ inserted' = inserted \o one
        /\ m_mutex' = NoThread
        /\ pc' = [pc EXCEPT ![t] = IF Len(rest) > 1 THEN "generic_add"
                                   ELSE "notify_addition"]
        /\ signal' = NoSignal
        /\ UNCHANGED <<cfg, moved_to, moved_from, abort, m_notify_addition, m_notify_removal, op, arg,
                       storage, ret, calls, suspended, spurious, delivered,
                       discarded, dropped>>

\* An add that reads was_empty before the hook: an add that had to wait for
\* space, or whose hook cleared the container, found elements there.
generic_add_impl_testing_first(t) ==
    /\ pc[t] = "generic_add_impl"
    /\ m_mutex = t
    /\ was_empty' = [was_empty EXCEPT ![t] =
                        /\ ~is_not_empty(m_container)
                        /\ ~suspended[t]
                        /\ ret[t].n = 0]
    /\ m_container' = add(m_container, arg[t])
    /\ inserted' = inserted \o arg[t]
    /\ m_mutex' = NoThread
    /\ pc' = [pc EXCEPT ![t] = "notify_addition"]
    /\ signal' = NoSignal
    /\ UNCHANGED <<cfg, moved_to, moved_from, abort, m_notify_addition, m_notify_removal, op, arg, storage,
                   ret, calls, suspended, spurious, delivered, discarded,
                   dropped>>

\* generic_add_impl after the hook: was_empty, add(), lock.unlock().
generic_add_impl(t) ==
    /\ pc[t] = "generic_add_impl"
    /\ m_mutex = t
    /\ was_empty' = [was_empty EXCEPT ![t] = ~is_not_empty(m_container)]
    /\ m_container' = add(m_container, arg[t])
    /\ inserted' = inserted \o arg[t]
    /\ m_mutex' = NoThread
    /\ pc' = [pc EXCEPT ![t] = "notify_addition"]
    /\ signal' = NoSignal
    /\ UNCHANGED <<cfg, moved_to, moved_from, abort, m_notify_addition, m_notify_removal, op, arg, storage,
                   ret, calls, suspended, spurious, delivered, discarded,
                   dropped>>

\* A notification sent only when the container already held elements.
addition_notifies_inverted(empty_before) == ~empty_before

\* A notification sent after every add.
addition_notifies_always(empty_before) == TRUE

\* Whether generic_add_impl notifies m_notify_addition at all.
addition_notifies(empty_before) == empty_before

\* generic_add_impl after the unlock: the notification, and the return.
notify_addition(t) ==
    /\ pc[t] = "notify_addition"
    /\ IF addition_notifies(was_empty[t])
       THEN LET all == addition_notify_all(cfg.impl, cfg.pop_frontable,
                                           adding_several(op[t]))
            IN \E woken \in Woken(m_notify_addition, all) :
                /\ m_notify_addition' = m_notify_addition \ woken
                /\ pc' = [u \in Threads |->
                            IF u = t THEN "idle"
                            ELSE IF u \in woken THEN "reacquire" ELSE pc[u]]
                /\ signal' = [cv |-> "addition", all |-> all, by |-> t,
                              held |-> m_mutex = t]
       ELSE /\ m_notify_addition' = m_notify_addition
            /\ pc' = [pc EXCEPT ![t] = "idle"]
            /\ signal' = NoSignal
    /\ ret' = [ret EXCEPT ![t] =
                  IF op[t] \in NonBlockingAddOps THEN Bool(TRUE) ELSE @]
    /\ UNCHANGED <<cfg, moved_to, moved_from, abort, m_container, m_mutex, m_notify_removal, op, arg,
                   storage, was_empty, calls, spurious, history_vars>>


\* ------------------------------------------------------------------ waiting

\* A woken waiter that goes on without taking the mutex again.
reacquire_unlocked(t) ==
    /\ pc[t] = "reacquire"
    /\ pc' = [pc EXCEPT ![t] = IF op[t] \in AllAddOps THEN "handle_add" ELSE "wait"]
    /\ signal' = NoSignal
    /\ UNCHANGED <<cfg, moved_to, moved_from, abort, m_container, m_mutex, m_notify_addition,
                   m_notify_removal, op, arg, storage, was_empty, ret, calls,
                   spurious, history_vars>>

\* A woken waiter that takes the mutex again and goes on without testing its
\* predicate.
reacquire_proceeding(t) ==
    /\ pc[t] = "reacquire"
    /\ m_mutex = NoThread
    /\ m_mutex' = t
    /\ pc' = [pc EXCEPT ![t] = IF op[t] \in AllAddOps
                               THEN "generic_add_impl"
                               ELSE IF op[t] \in SwappingOps
                               THEN "generic_pop_all"
                               ELSE "generic_pop_one"]
    /\ signal' = NoSignal
    /\ UNCHANGED <<cfg, moved_to, moved_from, abort, m_container, m_notify_addition, m_notify_removal, op,
                   arg, storage, was_empty, ret, calls, spurious, history_vars>>

\* A woken waiter takes the mutex again inside condition_variable_any::wait,
\* and the wait's loop then tests its predicate again.
reacquire(t) ==
    /\ pc[t] = "reacquire"
    /\ m_mutex = NoThread
    /\ m_mutex' = t
    /\ pc' = [pc EXCEPT ![t] = IF op[t] \in AllAddOps THEN "handle_add" ELSE "wait"]
    /\ signal' = NoSignal
    /\ UNCHANGED <<cfg, moved_to, moved_from, abort, m_container, m_notify_addition, m_notify_removal, op,
                   arg, storage, was_empty, ret, calls, spurious, history_vars>>

\* A condition variable may wake a waiter that nobody notified.
spurious_wakeup(t) ==
    /\ pc[t] = "waiting"
    /\ spurious < MaxSpurious
    /\ spurious' = spurious + 1
    /\ m_notify_addition' = m_notify_addition \ {t}
    /\ m_notify_removal' = m_notify_removal \ {t}
    /\ pc' = [pc EXCEPT ![t] = "reacquire"]
    /\ signal' = NoSignal
    /\ UNCHANGED <<cfg, moved_to, moved_from, abort, m_container, m_mutex, op, arg, storage, was_empty, ret,
                   calls, history_vars>>

\* wait_for_data(): lock_type(m_mutex).
wait_for_data(t) ==
    /\ pc[t] = "wait_for_data"
    /\ m_mutex = NoThread
    /\ m_mutex' = t
    /\ pc' = [pc EXCEPT ![t] = "wait"]
    /\ signal' = NoSignal
    /\ UNCHANGED <<cfg, moved_to, moved_from, abort, m_container, m_notify_addition, m_notify_removal, op,
                   arg, storage, was_empty, ret, calls, spurious, history_vars>>

\* A wait without its predicate.
wait_returns_always(container) == TRUE

\* A wait that sleeps whatever the container holds.
wait_returns_never(container) == FALSE

\* Whether m_notify_addition.wait(lock, is_not_empty()) returns.
wait_returns(container) == is_not_empty(container)

\* Pops that hand the lock of every wait straight to generic_pop_one.
AfterWait_unchecked(o) ==
    IF o \in SwappingOps THEN "generic_pop_all" ELSE "generic_pop_one"

\* What a pop does with the lock wait_for_data returns: pop_all hands it to
\* generic_pop_all, pop_one() to generic_pop_one, and the pop_one overloads
\* with a timeout or a stop token test for an empty container first.
AfterWait(o) ==
    CASE o \in SwappingOps -> "generic_pop_all"
      [] o = "pop_one" -> "generic_pop_one"
      [] OTHER -> "is_empty"

\* A wait that tests its predicate alone: it sleeps again after a stop request
\* or a passed deadline.
wait_uninterruptible(t) ==
    /\ pc[t] = "wait"
    /\ m_mutex = t
    /\ IF wait_returns(m_container)
       THEN /\ pc' = [pc EXCEPT ![t] = AfterWait(op[t])]
            /\ UNCHANGED <<m_mutex, m_notify_addition, suspended>>
       ELSE /\ m_mutex' = NoThread
            /\ m_notify_addition' = m_notify_addition \cup {t}
            /\ pc' = [pc EXCEPT ![t] = "waiting"]
            /\ suspended' = [suspended EXCEPT ![t] = TRUE]
    /\ signal' = NoSignal
    /\ UNCHANGED <<cfg, moved_to, moved_from, abort, m_container, m_notify_removal, op, arg, storage,
                   was_empty, ret, calls, spurious, inserted, delivered,
                   discarded, dropped>>

\* m_notify_addition.wait / wait_until / wait_for (lock, [token,] [timeout,]
\* is_not_empty()): return with the lock held when the predicate holds, or
\* when the deadline has passed or the stop was requested; release the lock
\* and block otherwise.
wait(t) ==
    /\ pc[t] = "wait"
    /\ m_mutex = t
    /\ IF wait_returns(m_container) \/ abort[t]
       THEN /\ pc' = [pc EXCEPT ![t] = AfterWait(op[t])]
            /\ UNCHANGED <<m_mutex, m_notify_addition, suspended>>
       ELSE /\ m_mutex' = NoThread
            /\ m_notify_addition' = m_notify_addition \cup {t}
            /\ pc' = [pc EXCEPT ![t] = "waiting"]
            /\ suspended' = [suspended EXCEPT ![t] = TRUE]
    /\ signal' = NoSignal
    /\ UNCHANGED <<cfg, moved_to, moved_from, abort, m_container, m_notify_removal, op, arg, storage,
                   was_empty, ret, calls, spurious, inserted, delivered,
                   discarded, dropped>>

\* A test of the predicate after which the lock is released before the
\* thread waits.
wait_test_unlocking(t) ==
    /\ pc[t] = "wait"
    /\ m_mutex = t
    /\ IF wait_returns(m_container) \/ abort[t]
       THEN /\ pc' = [pc EXCEPT ![t] = AfterWait(op[t])]
            /\ m_mutex' = m_mutex
       ELSE /\ pc' = [pc EXCEPT ![t] = "wait_block"]
            /\ m_mutex' = NoThread
    /\ signal' = NoSignal
    /\ UNCHANGED <<cfg, moved_to, moved_from, abort, m_container, m_notify_addition,
                   m_notify_removal, op, arg, storage, was_empty, ret, calls,
                   spurious, history_vars>>

\* The wait in two steps, for the interleavings between them.  The loop of
\* condition_variable_any::wait tests the predicate with the lock held, and
\* returns when it holds or the wait was aborted.
wait_test(t) ==
    /\ pc[t] = "wait"
    /\ m_mutex = t
    /\ pc' = [pc EXCEPT ![t] = IF wait_returns(m_container) \/ abort[t]
                               THEN AfterWait(op[t])
                               ELSE "wait_block"]
    /\ signal' = NoSignal
    /\ UNCHANGED <<cfg, moved_to, moved_from, abort, m_container, m_mutex, m_notify_addition,
                   m_notify_removal, op, arg, storage, was_empty, ret, calls,
                   spurious, history_vars>>

\* Otherwise the thread releases the lock and becomes a waiter in one step.
wait_block(t) ==
    /\ pc[t] = "wait_block"
    /\ m_mutex = t
    /\ m_mutex' = NoThread
    /\ m_notify_addition' = m_notify_addition \cup {t}
    /\ pc' = [pc EXCEPT ![t] = "waiting"]
    /\ suspended' = [suspended EXCEPT ![t] = TRUE]
    /\ signal' = NoSignal
    /\ UNCHANGED <<cfg, moved_to, moved_from, abort, m_container, m_notify_removal, op, arg, storage,
                   was_empty, ret, calls, spurious, inserted, delivered,
                   discarded, dropped>>

\* The deadline of a timed pop passes, or a stop is requested on the token of
\* a cancellable pop.  A thread blocked in the wait is woken: the timed wait
\* ends, and the stop callback of condition_variable_any notifies.
expire(t) ==
    /\ op[t] \in AbortablePopOps
    /\ pc[t] # "idle"
    /\ ~abort[t]
    /\ abort' = [abort EXCEPT ![t] = TRUE]
    /\ IF pc[t] = "waiting"
       THEN /\ m_notify_addition' = m_notify_addition \ {t}
            /\ pc' = [pc EXCEPT ![t] = "reacquire"]
       ELSE UNCHANGED <<m_notify_addition, pc>>
    /\ signal' = NoSignal
    /\ UNCHANGED <<cfg, moved_to, moved_from, m_container, m_mutex, m_notify_removal, op, arg,
                   storage, was_empty, ret, calls, spurious, history_vars>>

\* A stop is requested on the token of a thread that is blocked in an add.
\* generic_add_impl calls handle_add(m_container, lock), whose wait on
\* m_notify_removal takes no token (the overload of handle_add that takes one
\* is called nowhere), so the request changes nothing in the queue and wakes
\* nobody.
request_stop(t) ==
    /\ op[t] \in AllAddOps
    /\ pc[t] = "waiting"
    /\ t \in m_notify_removal
    /\ ~abort[t]
    /\ abort' = [abort EXCEPT ![t] = TRUE]
    /\ signal' = NoSignal
    /\ UNCHANGED <<cfg, moved_to, moved_from, m_container, m_mutex, m_notify_addition,
                   m_notify_removal, pc, op, arg, storage, was_empty, ret,
                   calls, spurious, history_vars>>

\* ------------------------------------------------------------------ removing

\* try_pop_all: lock_type(m_mutex), then generic_pop_all.
try_pop_all(t) ==
    /\ pc[t] = "try_pop_all"
    /\ m_mutex = NoThread
    /\ m_mutex' = t
    /\ pc' = [pc EXCEPT ![t] = "generic_pop_all"]
    /\ signal' = NoSignal
    /\ UNCHANGED <<cfg, moved_to, moved_from, abort, m_container, m_notify_addition, m_notify_removal, op,
                   arg, storage, was_empty, ret, calls, spurious, history_vars>>

\* try_pop_one: lock_type(m_mutex), then the test for an empty container.
try_pop_one(t) ==
    /\ pc[t] = "try_pop_one"
    /\ m_mutex = NoThread
    /\ m_mutex' = t
    /\ pc' = [pc EXCEPT ![t] = "is_empty"]
    /\ signal' = NoSignal
    /\ UNCHANGED <<cfg, moved_to, moved_from, abort, m_container, m_notify_addition, m_notify_removal, op,
                   arg, storage, was_empty, ret, calls, spurious, history_vars>>

\* if (containers::is_empty(m_container)) return tv::none; the lock's
\* destructor unlocks.
is_empty(t) ==
    /\ pc[t] = "is_empty"
    /\ m_mutex = t
    /\ IF m_container = <<>>
       THEN /\ m_mutex' = NoThread
            /\ ret' = [ret EXCEPT ![t] = Absent]
            /\ pc' = [pc EXCEPT ![t] = "idle"]
       ELSE /\ pc' = [pc EXCEPT ![t] = "generic_pop_one"]
            /\ UNCHANGED <<m_mutex, ret>>
    /\ signal' = NoSignal
    /\ UNCHANGED <<cfg, moved_to, moved_from, abort, m_container, m_notify_addition, m_notify_removal, op,
                   arg, storage, was_empty, calls, spurious, history_vars>>

\* derived().handle_remove_all / handle_remove_one: the waiters on
\* m_notify_removal that the hook wakes, called with the lock held.  Only the
\* blocking queue notifies.
RemovalWoken(previous_size, all) ==
    IF cfg.policy = "blocking" /\ removal_notifies(previous_size, cfg.max_size)
    THEN Woken(m_notify_removal, all)
    ELSE {{}}

RemovalSignal(t, previous_size, all) ==
    IF cfg.policy = "blocking" /\ removal_notifies(previous_size, cfg.max_size)
    THEN [cv |-> "removal", all |-> all, by |-> t, held |-> m_mutex = t]
    ELSE NoSignal

\* generic_pop_all: swap(m_container, storage), handle_remove_all, unlock.
generic_pop_all(t) ==
    /\ pc[t] = "generic_pop_all"
    /\ m_mutex = t
    /\ m_container' = storage[t]
    /\ storage' = [storage EXCEPT ![t] = m_container]
    /\ \E woken \in RemovalWoken(Len(m_container), TRUE) :
        /\ m_notify_removal' = m_notify_removal \ woken
        /\ pc' = [u \in Threads |->
                    IF u = t THEN "idle"
                    ELSE IF u \in woken THEN "reacquire" ELSE pc[u]]
    /\ signal' = RemovalSignal(t, Len(m_container), TRUE)
    /\ m_mutex' = NoThread
    /\ ret' = [ret EXCEPT ![t] = Contents(m_container)]
    /\ delivered' = delivered \o m_container
    /\ UNCHANGED <<cfg, moved_to, moved_from, abort, m_notify_addition, op, arg, was_empty, calls, suspended,
                   spurious, inserted, discarded, dropped>>

\* The element generic_pop_one returns and the elements it leaves.
\* On an empty container both are undefined behaviour; NoElem stands for
\* whatever the read yields.
NoElem == <<0, 0, 0>>
front(container) == IF container = <<>> THEN NoElem ELSE Head(container)
\* A pop_front that removes nothing.
pop_front_keeps(container) == container
pop_front(container) == IF container = <<>> THEN <<>> ELSE Tail(container)

\* generic_pop_one: front, pop_front, handle_remove_one, unlock.
generic_pop_one(t) ==
    /\ pc[t] = "generic_pop_one"
    /\ m_mutex = t
    /\ m_container' = pop_front(m_container)
    /\ \E woken \in RemovalWoken(Len(m_container), FALSE) :
        /\ m_notify_removal' = m_notify_removal \ woken
        /\ pc' = [u \in Threads |->
                    IF u = t THEN "idle"
                    ELSE IF u \in woken THEN "reacquire" ELSE pc[u]]
    /\ signal' = RemovalSignal(t, Len(m_container), FALSE)
    /\ m_mutex' = NoThread
    /\ ret' = [ret EXCEPT ![t] = Value(front(m_container))]
    /\ delivered' = Append(delivered, front(m_container))
    /\ UNCHANGED <<cfg, moved_to, moved_from, abort, m_notify_addition, op, arg, storage, was_empty, calls,
                   suspended, spurious, inserted, discarded, dropped>>

\* clear(): lock_type(m_mutex).
clear(t) ==
    /\ pc[t] = "clear"
    /\ m_mutex = NoThread
    /\ m_mutex' = t
    /\ pc' = [pc EXCEPT ![t] = "clear_locked"]
    /\ signal' = NoSignal
    /\ UNCHANGED <<cfg, moved_to, moved_from, abort, m_container, m_notify_addition, m_notify_removal, op,
                   arg, storage, was_empty, ret, calls, spurious, history_vars>>

\* A clear() that calls handle_remove_one where the code calls
\* handle_remove_all.
clear_locked_remove_one(t) ==
    /\ pc[t] = "clear_locked"
    /\ m_mutex = t
    /\ m_container' = <<>>
    /\ \E woken \in RemovalWoken(Len(m_container), FALSE) :
        /\ m_notify_removal' = m_notify_removal \ woken
        /\ pc' = [u \in Threads |->
                    IF u = t THEN "idle"
                    ELSE IF u \in woken THEN "reacquire" ELSE pc[u]]
    /\ signal' = RemovalSignal(t, Len(m_container), FALSE)
    /\ m_mutex' = NoThread
    /\ discarded' = discarded + Len(m_container)
    /\ UNCHANGED <<cfg, moved_to, moved_from, abort, m_notify_addition, op, arg, storage, was_empty, ret,
                   calls, suspended, spurious, inserted, delivered, dropped>>

\* clear() with the lock: previous_size, containers::clear, handle_remove_all,
\* and the lock's destructor.
clear_locked(t) ==
    /\ pc[t] = "clear_locked"
    /\ m_mutex = t
    /\ m_container' = <<>>
    /\ \E woken \in RemovalWoken(Len(m_container), TRUE) :
        /\ m_notify_removal' = m_notify_removal \ woken
        /\ pc' = [u \in Threads |->
                    IF u = t THEN "idle"
                    ELSE IF u \in woken THEN "reacquire" ELSE pc[u]]
    /\ signal' = RemovalSignal(t, Len(m_container), TRUE)
    /\ m_mutex' = NoThread
    /\ discarded' = discarded + Len(m_container)
    /\ UNCHANGED <<cfg, moved_to, moved_from, abort, m_notify_addition, op, arg, storage, was_empty, ret,
                   calls, suspended, spurious, inserted, delivered, dropped>>


\* reserve() and size(): lock_type(m_mutex).
reserve(t) ==
    /\ pc[t] = "reserve"
    /\ m_mutex = NoThread
    /\ m_mutex' = t
    /\ pc' = [pc EXCEPT ![t] = "reserve_locked"]
    /\ signal' = NoSignal
    /\ UNCHANGED <<cfg, moved_to, moved_from, abort, m_container, m_notify_addition, m_notify_removal,
                   op, arg, storage, was_empty, ret, calls, spurious,
                   history_vars>>

\* m_container.reserve(new_capacity) changes the capacity and no element; the
\* lock's destructor unlocks.
reserve_locked(t) ==
    /\ pc[t] = "reserve_locked"
    /\ m_mutex = t
    /\ m_mutex' = NoThread
    /\ pc' = [pc EXCEPT ![t] = "idle"]
    /\ signal' = NoSignal
    /\ UNCHANGED <<cfg, moved_to, moved_from, abort, m_container, m_notify_addition, m_notify_removal,
                   op, arg, storage, was_empty, ret, calls, spurious,
                   history_vars>>

size(t) ==
    /\ pc[t] = "size"
    /\ m_mutex = NoThread
    /\ m_mutex' = t
    /\ pc' = [pc EXCEPT ![t] = "size_locked"]
    /\ signal' = NoSignal
    /\ UNCHANGED <<cfg, moved_to, moved_from, abort, m_container, m_notify_addition, m_notify_removal,
                   op, arg, storage, was_empty, ret, calls, spurious,
                   history_vars>>

\* A size() that counts every element ever added.
size_locked_counting(t) ==
    /\ pc[t] = "size_locked"
    /\ m_mutex = t
    /\ ret' = [ret EXCEPT ![t] = Size(Len(inserted))]
    /\ m_mutex' = NoThread
    /\ pc' = [pc EXCEPT ![t] = "idle"]
    /\ signal' = NoSignal
    /\ UNCHANGED <<cfg, moved_to, moved_from, abort, m_container, m_notify_addition, m_notify_removal,
                   op, arg, storage, was_empty, calls, spurious, history_vars>>

\* return containers::size(m_container); the lock's destructor unlocks.
size_locked(t) ==
    /\ pc[t] = "size_locked"
    /\ m_mutex = t
    /\ ret' = [ret EXCEPT ![t] = Size(Len(m_container))]
    /\ m_mutex' = NoThread
    /\ pc' = [pc EXCEPT ![t] = "idle"]
    /\ signal' = NoSignal
    /\ UNCHANGED <<cfg, moved_to, moved_from, abort, m_container, m_notify_addition, m_notify_removal,
                   op, arg, storage, was_empty, calls, spurious, history_vars>>

\* ------------------------------------------------------------------ construction

\* Threads 1 and 2 are the producers of a workload, threads 3 and 4 its
\* consumers.
\* A queue type (impl, policy, max_size, whether Container has pop_front) and
\* a workload: the operations each thread may call and the storage arguments
\* pop_all is called with.
Config(impl, policy, max_size, pop_frontable, ops, budget) ==
    [impl |-> impl, policy |-> policy, max_size |-> max_size,
     pop_frontable |-> pop_frontable, ops |-> ops, budget |-> budget,
     storages |-> {<<>>}]

\* What threads 1..4 may call, and how many calls each may make.
Ops(p1, p2, c3, c4) == (1 :> p1) @@ (2 :> p2) @@ (3 :> c3) @@ (4 :> c4)
Budget(p1, p2, c3, c4) == (1 :> p1) @@ (2 :> p2) @@ (3 :> c3) @@ (4 :> c4)

UsedOps(c) == UNION {c.ops[t] : t \in Threads}

\* Only the boost header has a dropping queue; it has no non_blocking_* adds;
\* pop_one needs a container with pop_front.
Offered(c) ==
    /\ c.policy = "dropping" => c.impl = "boost"
    /\ c.impl = "boost" => UsedOps(c) \cap NonBlockingAddOps = {}
    /\ c.impl = "boost" => UsedOps(c) \cap TokenPopOps = {}
    /\ ~c.pop_frontable => UsedOps(c) \cap FrontPopOps = {}
    /\ c.policy = "unbounded" => c.max_size = 0

Idle(c) ==
    /\ cfg = c
    /\ m_container = <<>>
    /\ m_mutex = NoThread
    /\ m_notify_addition = {}
    /\ m_notify_removal = {}
    /\ pc = [t \in Threads |-> "idle"]
    /\ op = [t \in Threads |-> NoOp]
    /\ arg = [t \in Threads |-> <<>>]
    /\ storage = [t \in Threads |-> <<>>]
    /\ was_empty = [t \in Threads |-> FALSE]
    /\ ret = [t \in Threads |-> Void]
    /\ calls = [t \in Threads |-> 0]
    /\ abort = [t \in Threads |-> FALSE]
    /\ suspended = [t \in Threads |-> FALSE]
    /\ spurious = 0
    /\ inserted = <<>>
    /\ delivered = <<>>
    /\ discarded = 0
    /\ dropped = 0
    /\ signal = NoSignal
    /\ moved_to = NoQueue
    /\ moved_from = NoQueue

\* The operations a queue type offers: the boost header has no non_blocking_*
\* adds and no stop tokens, and every pop_one needs a container with pop_front.
OfferedOps(impl, pop_frontable) ==
    (AllAddOps \cup AllPopOps \cup AbortablePopOps \cup ObserverOps
        \cup {"clear"})
        \ ((IF impl = "boost" THEN NonBlockingAddOps \cup TokenPopOps ELSE {})
           \cup (IF pop_frontable THEN {} ELSE FrontPopOps))

\* The queue types: <<impl, policy, max_size, pop_frontable>>.
UnboundedTypes ==
    {<<i, "unbounded", 0, f>> : i \in Impls, f \in BOOLEAN}
BlockingTypes ==
    {<<i, "blocking", m, f>> : i \in Impls, m \in 1..MaxBound, f \in BOOLEAN}

DroppingTypes ==
    {<<"boost", "dropping", m, f>> : m \in 1..MaxBound, f \in BOOLEAN}

\* The constructors of the bounded queues store max_size_ and test nothing,
\* so a queue can be constructed with every value of its size type, 0 included.
AnyBoundTypes ==
    {<<i, "blocking", m, TRUE>> : i \in Impls, m \in 0..MaxBound}
    \cup {<<"boost", "dropping", m, TRUE>> : m \in 0..MaxBound}

\* A workload on a queue type: the operations the type does not offer are
\* left out.
Workload(type, ops, budget) ==
    Config(type[1], type[2], type[3], type[4],
           [t \in Threads |-> ops[t] \cap OfferedOps(type[1], type[4])], budget)

Step(t) ==
    \/ Call(t)
    \/ generic_add(t)
    \/ handle_add(t)
    \/ generic_add_impl(t)
    \/ notify_addition(t)
    \/ wait_for_data(t)
    \/ wait(t)
    \/ reacquire(t)
    \/ spurious_wakeup(t)

\* Every thread that can take a step eventually takes one; a spurious wakeup
\* is never owed.
Fairness ==
    \A t \in Threads :
        /\ WF_vars(Call(t))
        /\ WF_vars(generic_add(t))
        /\ WF_vars(handle_add(t))
        /\ WF_vars(generic_add_impl(t))
        /\ WF_vars(notify_addition(t))
        /\ WF_vars(wait_for_data(t))
        /\ WF_vars(wait(t))
        /\ WF_vars(reacquire(t))
        /\ WF_vars(generic_pop_all(t))
        /\ WF_vars(generic_pop_one(t))

\* One producer and one consumer on an unbounded queue: push or append, and a
\* blocking pop.
OneToOne ==
    {c \in {Config(i, "unbounded", 0, f, Ops({a}, {}, {p}, {}),
                    Budget(MaxCalls, 0, MaxCalls, 0)) :
              i \in Impls, f \in BOOLEAN, a \in AddOps, p \in BlockingPopOps} :
        Offered(c)}

InitOneToOne == \E c \in OneToOne : Idle(c)

NextOneToOne ==
    \E t \in Threads : Step(t) \/ generic_pop_all(t) \/ generic_pop_one(t)

SpecOneToOne == InitOneToOne /\ [][NextOneToOne]_vars /\ Fairness

\* One producer with every add and one consumer with every removal, on
\* unbounded and blocking queues.
Mixed ==
    {Workload(type,
              Ops(AllAddOps, {}, AllPopOps \cup {"clear"}, {}),
              Budget(MaxCalls, 0, MaxCalls, 0)) :
        type \in UnboundedTypes \cup BlockingTypes}

Init == \E c \in Mixed : Idle(c)

Next ==
    \E t \in Threads :
        \/ Step(t)
        \/ generic_non_blocking_add(t)
        \/ try_pop_all(t)
        \/ try_pop_one(t)
        \/ is_empty(t)
        \/ generic_pop_all(t)
        \/ generic_pop_one(t)
        \/ clear(t)
        \/ clear_locked(t)

Spec == Init /\ [][Next]_vars

\* Producers that push and consumers blocked in pop_one, on unbounded queues
\* whose container has pop_front.
SeveralConsumers ==
    {Workload(type,
              Ops({"emplace"}, {"emplace"}, {"pop_one"}, {"pop_one"}),
              Budget(MaxCalls, MaxCalls - 1, MaxCalls - 1, MaxCalls - 1)) :
        type \in {u \in UnboundedTypes : u[4]}}

InitConsumers == \E c \in SeveralConsumers : Idle(c)

NextConsumers == \E t \in Threads : Step(t) \/ generic_pop_one(t)

SpecConsumers == InitConsumers /\ [][NextConsumers]_vars

\* Two producers, one that pushes and one that appends, and a consumer, on
\* unbounded queues.
TwoProducers ==
    {Workload(type,
              Ops({"emplace"}, {"append"}, {"pop_all", "pop_one"}, {}),
              Budget(MaxCalls, MaxCalls, MaxCalls, 0)) :
        type \in {u \in UnboundedTypes : u[1] # "boost"}}

InitProducers == \E c \in TwoProducers : Idle(c)

NextProducers ==
    \E t \in Threads : Step(t) \/ generic_pop_all(t) \/ generic_pop_one(t)

SpecProducers == InitProducers /\ [][NextProducers]_vars

\* Producers that append batches and consumers that drain the queue: two
\* producers and one consumer, or one producer and two consumers blocked in
\* pop_all.
Batches ==
    {Workload(type,
              Ops({"append"}, {"append"}, {"pop_all", "try_pop_all"}, {}),
              Budget(MaxCalls - 1, MaxCalls - 1, MaxCalls, 0)) :
        type \in UnboundedTypes \cup BlockingTypes}
    \cup
    {Workload(type,
              Ops({"append"}, {}, {"pop_all"}, {"pop_all"}),
              Budget(MaxCalls, 0, MaxCalls - 1, MaxCalls - 1)) :
        type \in UnboundedTypes \cup BlockingTypes}

InitBatches == \E c \in Batches : Idle(c)

NextBatches ==
    \E t \in Threads : Step(t) \/ try_pop_all(t) \/ generic_pop_all(t)

SpecBatches == InitBatches /\ [][NextBatches]_vars

\* Blocking queues on which every add is a single-element push: two producers
\* and a consumer that removes one element at a time, or a producer that
\* pushes, one that tries to, and a consumer that also drains and clears.
OneAtATime ==
    {Workload(type,
              Ops({"emplace"}, {"emplace"}, {"pop_one", "try_pop_one"}, {}),
              Budget(MaxCalls, MaxCalls, MaxCalls, 0)) :
        type \in {b \in BlockingTypes : b[4]}}

Pushes ==
    {Workload(type,
              Ops({"emplace"}, {"non_blocking_emplace"},
                  {"pop_all", "try_pop_all", "pop_one", "clear"}, {}),
              Budget(MaxCalls, MaxCalls - 1, MaxCalls, 0)) :
        type \in BlockingTypes}

InitBlocking == \E c \in OneAtATime \cup Pushes : Idle(c)

SpecBlocking == InitBlocking /\ [][Next]_vars

\* Dropping queues: a producer that pushes one element more than the largest
\* bound, a producer that appends, and a consumer.
Overflow ==
    {Workload(type,
              Ops({"emplace"}, {"append"},
                  {"pop_all", "try_pop_all", "pop_one"}, {}),
              Budget(MaxBound + 1, MaxCalls - 1, MaxCalls, 0)) :
        type \in DroppingTypes}

InitDropping == \E c \in Overflow : Idle(c)

NextDropping ==
    \E t \in Threads :
        Step(t) \/ try_pop_all(t) \/ generic_pop_all(t) \/ generic_pop_one(t)

SpecDropping == InitDropping /\ [][NextDropping]_vars

\* Bounded queues constructed with any bound: a producer that pushes and a
\* consumer.
AnyBound ==
    {Workload(type,
              Ops({"emplace"}, {}, {"pop_all", "pop_one"}, {}),
              Budget(MaxCalls, 0, MaxCalls, 0)) :
        type \in AnyBoundTypes}

InitAnyBound == \E c \in AnyBound : Idle(c)

NextAnyBound ==
    \E t \in Threads : Step(t) \/ generic_pop_all(t) \/ generic_pop_one(t)

SpecAnyBound == InitAnyBound /\ [][NextAnyBound]_vars

\* Operations that read or write the container, size() and reserve()
\* included, on unbounded and blocking queues whose container has pop_front.
Observed ==
    {Workload(type,
              Ops({"emplace", "reserve"}, {"non_blocking_emplace"},
                  {"pop_one", "try_pop_all", "try_pop_one", "clear", "size"},
                  {}),
              Budget(MaxCalls, MaxCalls - 1, MaxCalls, 0)) :
        type \in {u \in UnboundedTypes \cup BlockingTypes : u[4]}}

InitObserved == \E c \in Observed : Idle(c)

NextObserved ==
    \/ Next
    \/ \E t \in Threads :
        reserve(t) \/ reserve_locked(t) \/ size(t) \/ size_locked(t)

SpecObserved == InitObserved /\ [][NextObserved]_vars

\* Pops with a timeout or a stop token, with the plain ones: a producer that
\* appends and two consumers, on unbounded queues whose container has
\* pop_front.
Timed ==
    {Workload(type,
              Ops({"append"}, {},
                  {"pop_one", "pop_one_timed", "pop_one_token", "try_pop_one",
                   "pop_all_timed"},
                  {"pop_one_timed"}),
              Budget(MaxCalls, 0, MaxCalls - 1, MaxCalls - 1)) :
        type \in {u \in UnboundedTypes : u[4]}}

InitTimed == \E c \in Timed : Idle(c)

NextTimed ==
    \E t \in Threads :
        \/ Step(t)
        \/ expire(t)
        \/ try_pop_one(t)
        \/ is_empty(t)
        \/ generic_pop_all(t)
        \/ generic_pop_one(t)

\* The deadline of a timed pop passes at some time; nobody has to request a
\* stop.
FairnessTimed ==
    /\ Fairness
    /\ \A t \in Threads :
        /\ WF_vars(op[t] \in TimedPopOps /\ expire(t))
        /\ WF_vars(try_pop_one(t))
        /\ WF_vars(is_empty(t))

SpecTimed == InitTimed /\ [][NextTimed]_vars /\ FairnessTimed

\* Pops with a stop token: a producer that appends, a consumer in
\* pop_all(token) / pop_one(token) and one in pop_one(token) / pop_all(), on
\* the unbounded queues of the generations that take a std::stop_token.
Cancellable ==
    {Workload(type,
              Ops({"append"}, {},
                  {"pop_all_token", "pop_one_token"},
                  {"pop_one_token", "pop_all"}),
              Budget(MaxCalls - 1, 0, MaxCalls, MaxCalls - 1)) :
        type \in {u \in UnboundedTypes : u[1] # "boost"}}

InitCancellable == \E c \in Cancellable : Idle(c)

NextCancellable ==
    \E t \in Threads :
        \/ Step(t)
        \/ expire(t)
        \/ is_empty(t)
        \/ generic_pop_all(t)
        \/ generic_pop_one(t)

\* Nobody has to request a stop; a stop that was requested is processed.
FairnessCancellable ==
    /\ Fairness
    /\ \A t \in Threads : WF_vars(is_empty(t))

SpecCancellable ==
    InitCancellable /\ [][NextCancellable]_vars /\ FairnessCancellable

\* Every policy of every generation: a producer that pushes and appends and
\* two consumers blocked in pop_all / pop_one.
Signals ==
    {Workload(type,
              Ops({"emplace", "append"}, {}, {"pop_all", "pop_one"},
                  {"pop_all"}),
              Budget(MaxCalls, 0, MaxCalls - 1, MaxCalls - 1)) :
        type \in UnboundedTypes \cup BlockingTypes \cup DroppingTypes}

InitSignals == \E c \in Signals : Idle(c)

NextSignals ==
    \E t \in Threads : Step(t) \/ generic_pop_all(t) \/ generic_pop_one(t)

SpecSignals == InitSignals /\ [][NextSignals]_vars

\* Blocking queues, of a container with pop_front, on which every removal is
\* a bulk one: two producers that
\* push, a consumer that keeps calling pop_all (it has one call for every
\* element the producers can add, and each of its calls removes at least one
\* element), and a consumer that tries to drain and clears.
BulkRemovals ==
    {Workload(type,
              Ops({"emplace"}, {"emplace"}, {"pop_all"},
                  {"try_pop_all", "clear"}),
              Budget(MaxCalls, MaxCalls - 1, MaxCalls + MaxCalls - 1,
                     MaxCalls - 1)) :
        type \in {b \in BlockingTypes : b[4]}}

InitBulk == \E c \in BulkRemovals : Idle(c)

NextBulk ==
    \E t \in Threads :
        \/ Step(t)
        \/ try_pop_all(t)
        \/ generic_pop_all(t)
        \/ clear(t)
        \/ clear_locked(t)

FairnessBulk ==
    /\ Fairness
    /\ \A t \in Threads :
        /\ WF_vars(try_pop_all(t))
        /\ WF_vars(clear(t))
        /\ WF_vars(clear_locked(t))

SpecBulk == InitBulk /\ [][NextBulk]_vars /\ FairnessBulk

\* The queues without m_notify_removal, unbounded and dropping: a producer
\* that pushes, a producer that appends, and a consumer.
NeverFull ==
    {Workload(type,
              Ops({"emplace"}, {"append"}, {"pop_all", "pop_one"}, {}),
              Budget(MaxCalls, MaxCalls - 1, MaxCalls - 1, 0)) :
        type \in UnboundedTypes \cup DroppingTypes}

InitNeverFull == \E c \in NeverFull : Idle(c)

NextNeverFull ==
    \E t \in Threads : Step(t) \/ generic_pop_all(t) \/ generic_pop_one(t)

SpecNeverFull == InitNeverFull /\ [][NextNeverFull]_vars /\ Fairness

\* Producers whose thread has a stop token, as the writers of the benchmark:
\* a producer that pushes and one that appends on a blocking queue of the
\* generations with std::stop_token, and a consumer.
StoppableProducers ==
    {Workload(type,
              Ops({"emplace"}, {"append"}, {"pop_all"}, {}),
              Budget(MaxCalls, MaxCalls - 1, MaxCalls - 1, 0)) :
        type \in {b \in BlockingTypes : b[1] # "boost"}}

InitStoppable == \E c \in StoppableProducers : Idle(c)

NextStoppable ==
    \E t \in Threads : Step(t) \/ request_stop(t) \/ generic_pop_all(t)

SpecStoppable == InitStoppable /\ [][NextStoppable]_vars

\* The wait in two steps: a producer that pushes and appends (the empty
\* batch included) and two consumers in pop_all, on unbounded queues.
CheckThenWait ==
    {Workload(type,
              Ops({"emplace", "append"}, {}, {"pop_all"}, {"pop_all"}),
              Budget(MaxCalls, 0, MaxCalls, MaxCalls - 1)) :
        type \in UnboundedTypes}

InitCheckThenWait == \E c \in CheckThenWait : Idle(c)

NextCheckThenWait ==
    \E t \in Threads :
        \/ Call(t)
        \/ generic_add(t)
        \/ handle_add(t)
        \/ generic_add_impl(t)
        \/ notify_addition(t)
        \/ wait_for_data(t)
        \/ wait_test(t)
        \/ wait_block(t)
        \/ reacquire(t)
        \/ spurious_wakeup(t)
        \/ generic_pop_all(t)

SpecCheckThenWait == InitCheckThenWait /\ [][NextCheckThenWait]_vars

\* An element a caller left in the container it passes as storage.
Stored == Elem(NoThread, 0, 1)

\* The workload c with pop_all called with any of the containers in storages.
WithStorages(c, storages) == [c EXCEPT !.storages = storages]

\* pop_all and try_pop_all called with a storage container that is empty or
\* holds an element: a producer that pushes and two consumers, on unbounded
\* and blocking queues.
Storages ==
    {WithStorages(
        Workload(type,
                 Ops({"emplace"}, {}, {"pop_all", "try_pop_all"}, {"pop_all"}),
                 Budget(MaxCalls, 0, MaxCalls - 1, MaxCalls - 1)),
        {<<>>, <<Stored>>}) :
        type \in UnboundedTypes \cup BlockingTypes}

InitStorages == \E c \in Storages : Idle(c)

NextStorages ==
    \E t \in Threads : Step(t) \/ try_pop_all(t) \/ generic_pop_all(t)

SpecStorages == InitStorages /\ [][NextStorages]_vars

\* Several producers and several consumers on an unbounded queue: a producer
\* that pushes, a producer that appends, a consumer that keeps calling
\* pop_all (it has one call for every element the producers can add, and
\* each of its calls removes at least one element), and a second consumer.
Delivery ==
    {Workload(type,
              Ops({"emplace"}, {"append"}, {"pop_all"}, {"pop_all"}),
              Budget(MaxCalls - 1, MaxCalls - 1, MaxCalls - 1 + MaxBatch,
                     MaxCalls - 1)) :
        type \in UnboundedTypes}

InitDelivery == \E c \in Delivery : Idle(c)

NextDelivery == \E t \in Threads : Step(t) \/ generic_pop_all(t)

SpecDelivery == InitDelivery /\ [][NextDelivery]_vars /\ Fairness

\* ------------------------------------------------------------------ locked_access

\* locked_access<T, Mutex> is a value and a mutex: m_container stands for its
\* m_value, m_mutex for its m_mutex. A thread at "locked_t" is constructing
\* the handle locked() returns, a thread at "value" has the handle.
LockedAccessOps == {"locked", "unlocked"}

LockedAccess ==
    {Config("module", "unbounded", 0, TRUE,
            [t \in Threads |-> LockedAccessOps],
            Budget(MaxCalls, MaxCalls - 1, MaxCalls - 1, MaxCalls - 1))}

InitLockedAccess == \E c \in LockedAccess : Idle(c)

\* locked(): return locked_t(m_value, m_mutex).
locked(t) ==
    /\ pc[t] = "idle"
    /\ calls[t] < cfg.budget[t]
    /\ "locked" \in cfg.ops[t]
    /\ op' = [op EXCEPT ![t] = "locked"]
    /\ calls' = [calls EXCEPT ![t] = @ + 1]
    /\ ret' = [ret EXCEPT ![t] = Void]
    /\ pc' = [pc EXCEPT ![t] = "locked_t"]
    /\ UNCHANGED <<cfg, moved_to, moved_from, queue_vars, arg, storage, was_empty, abort, spurious,
                   history_vars, signal>>

\* A handle whose m_lock is constructed without locking the mutex.
locked_t_deferred(t) ==
    /\ pc[t] = "locked_t"
    /\ pc' = [pc EXCEPT ![t] = "value"]
    /\ UNCHANGED <<cfg, moved_to, moved_from, queue_vars, op, arg, storage, was_empty, ret, calls,
                   abort, spurious, history_vars, signal>>

\* locked_t's constructor: m_value(value_), m_lock(mutex); the unique_lock
\* blocks until the mutex is free.
locked_t(t) ==
    /\ pc[t] = "locked_t"
    /\ m_mutex = NoThread
    /\ m_mutex' = t
    /\ pc' = [pc EXCEPT ![t] = "value"]
    /\ UNCHANGED <<cfg, moved_to, moved_from, m_container, m_notify_addition, m_notify_removal, op,
                   arg, storage, was_empty, ret, calls, abort, spurious,
                   history_vars, signal>>

\* value() const &: the reference to m_value; the thread that has the handle
\* reads the value through it or assigns to it.
value(t) ==
    /\ pc[t] = "value"
    /\ \/ /\ ret' = [ret EXCEPT ![t] = Contents(m_container)]
          /\ UNCHANGED m_container
       \/ /\ m_container' = <<Elem(t, calls[t], 1)>>
          /\ UNCHANGED ret
    /\ UNCHANGED <<cfg, moved_to, moved_from, m_mutex, m_notify_addition, m_notify_removal, pc, op,
                   arg, storage, was_empty, calls, abort, spurious,
                   history_vars, signal>>

\* The handle is destroyed: the destructor of m_lock unlocks the mutex.
locked_t_destroyed(t) ==
    /\ pc[t] = "value"
    /\ m_mutex' = (IF m_mutex = t THEN NoThread ELSE m_mutex)
    /\ pc' = [pc EXCEPT ![t] = "idle"]
    /\ UNCHANGED <<cfg, moved_to, moved_from, m_container, m_notify_addition, m_notify_removal, op,
                   arg, storage, was_empty, ret, calls, abort, spurious,
                   history_vars, signal>>

\* unlocked(): return m_value.
unlocked(t) ==
    /\ pc[t] = "idle"
    /\ calls[t] < cfg.budget[t]
    /\ "unlocked" \in cfg.ops[t]
    /\ op' = [op EXCEPT ![t] = "unlocked"]
    /\ calls' = [calls EXCEPT ![t] = @ + 1]
    /\ ret' = [ret EXCEPT ![t] = Contents(m_container)]
    /\ UNCHANGED <<cfg, moved_to, moved_from, queue_vars, pc, arg, storage, was_empty, abort,
                   spurious, history_vars, signal>>

NextLockedAccess ==
    \E t \in Threads :
        \/ locked(t)
        \/ locked_t(t)
        \/ value(t)
        \/ locked_t_destroyed(t)
        \/ unlocked(t)

SpecLockedAccess == InitLockedAccess /\ [][NextLockedAccess]_vars

\* The threads that have a handle of the locked_access object.
Handles == {t \in Threads : pc[t] = "value"}

\* ------------------------------------------------------------------ moving

\* A move constructor that moves the mutex and the condition variables as
\* it moves the container: the new queue gets the owner and the waiters.
basic_queue_impl_move_transferring ==
    /\ ~moved_to.constructed
    /\ moved_to' = Queue(m_container, m_mutex, m_notify_addition,
                         m_notify_removal)
    /\ m_container' = <<>>
    /\ m_mutex' = NoThread
    /\ m_notify_addition' = {}
    /\ m_notify_removal' = {}
    /\ moved_from' = Queue(m_container, m_mutex, m_notify_addition,
                           m_notify_removal)
    /\ signal' = NoSignal
    /\ UNCHANGED <<cfg, pc, op, arg, storage, was_empty, ret, calls, abort,
                   spurious, history_vars>>

\* basic_queue_impl(basic_queue_impl &&) = default, from the thread that owns
\* the queue: m_container is move-constructed from the source's, which is
\* left empty; movable_mutex(movable_mutex &&) {} and
\* movable_condition_variable(movable_condition_variable &&) {} construct a
\* new mutex and new condition variables and do not touch the source's. The
\* constructor takes no lock, so while a thread owns the source's mutex the
\* move of the container races with that thread's operation, and either
\* container may end up with the elements or without them.
basic_queue_impl_move ==
    /\ ~moved_to.constructed
    /\ LET racing == m_mutex # NoThread
       IN  \E to \in (IF racing THEN {m_container, <<>>} ELSE {m_container}),
              from \in (IF racing THEN {<<>>, m_container} ELSE {<<>>}) :
               /\ moved_to' = Queue(to, NoThread, {}, {})
               /\ m_container' = from
    /\ moved_from' = Queue(m_container, m_mutex, m_notify_addition,
                           m_notify_removal)
    /\ signal' = NoSignal
    /\ UNCHANGED <<cfg, m_mutex, m_notify_addition, m_notify_removal, pc, op,
                   arg, storage, was_empty, ret, calls, abort, spurious,
                   history_vars>>

\* A boost queue that is moved from while two producers and two consumers
\* use it.
Moved ==
    {Workload(type,
              Ops({"emplace"}, {"emplace"}, {"pop_all"}, {"pop_all"}),
              Budget(MaxCalls - 1, MaxCalls - 1, MaxCalls - 1,
                     MaxCalls - 1)) :
        type \in {ty \in UnboundedTypes \cup BlockingTypes \cup DroppingTypes :
                    ty[1] = "boost"}}

InitMoved == \E c \in Moved : Idle(c)

NextMoved ==
    \/ \E t \in Threads : Step(t) \/ generic_pop_all(t)
    \/ basic_queue_impl_move

SpecMoved == InitMoved /\ [][NextMoved]_vars

\* ------------------------------------------------------------------ claims

\* A thread blocked in a wait on m_notify_addition / m_notify_removal.
WaitingForData(t) == pc[t] = "waiting" /\ t \in m_notify_addition
WaitingForSpace(t) == pc[t] = "waiting" /\ t \in m_notify_removal

\* An add that has been called and has not inserted yet.
Adding(t) == pc[t] \in {"generic_add", "generic_non_blocking_add", "handle_add",
                        "generic_add_impl"}

\* The non-empty batches producer 1 may add.
Batches1 == {Batch(1, k, n) : k \in 1..MaxCalls, n \in 1..MaxBatch}

\* What a blocking pop returns when it takes the batch b from a queue that
\* held nothing else.
Popped(o, b) == IF o = "pop_one" THEN Value(b[1]) ELSE Contents(b)

\* r is what a blocking pop returns when b is at the front of the queue.
StartsWith(r, o, b) ==
    IF o = "pop_one"
    THEN r = Value(b[1])
    ELSE /\ r.kind = "container"
         /\ Len(r.elems) >= Len(b)
         /\ SubSeq(r.elems, 1, Len(b)) = b

\* C1: one producer, one consumer: once the consumer is blocked in pop_one() /
\* pop_all() on the empty queue and the producer has called push(v) (or an
\* append of a non-empty batch), the consumer eventually returns, and returns
\* v: pop_one returns v, pop_all a container that starts with v, and exactly v
\* when that push is the producer's last add.
C1_NoLostWakeup ==
    \A b \in Batches1 :
        /\ (WaitingForData(3) /\ Adding(1) /\ arg[1] = b)
              ~> (pc[3] = "idle" /\ StartsWith(ret[3], op[3], b))
        /\ (WaitingForData(3) /\ Adding(1) /\ arg[1] = b /\ calls[1] = MaxCalls)
              ~> (pc[3] = "idle" /\ ret[3] = Popped(op[3], b))

\* C1's case: the consumer blocked on the empty queue, no wakeup was spurious,
\* and it has returned what the producer pushed.
C1_Witness ==
    /\ pc[3] = "idle"
    /\ suspended[3]
    /\ spurious = 0
    /\ ret[3] = Popped(op[3], arg[1])
    /\ arg[1] # <<>>


\* No operation is running: every thread is outside the queue or blocked on a
\* condition variable.
Quiescent == \A t \in Threads : pc[t] \in {"idle", "waiting"}

\* C2: several consumers in pop_one on a container with pop_front: whenever
\* no add is in progress and the container is not empty, no consumer is still
\* blocked on m_notify_addition.  Stated for the states in which no consumer
\* is running either, where a blocked consumer stays blocked.
C2_NoConsumerLeftBlocked ==
    (Quiescent /\ m_container # <<>>) => m_notify_addition = {}

\* C3: blocking queue, single-element pushes, consumers that remove one
\* element at a time: whenever no operation is in progress and size < bound,
\* no producer is still blocked on m_notify_removal.
C3_ProducersReleased ==
    (/\ UsedOps(cfg) \subseteq {"emplace", "pop_one", "try_pop_one"}
     /\ Quiescent
     /\ Len(m_container) < cfg.max_size)
        => m_notify_removal = {}

\* C4: on a blocking queue on which every add is a single-element push, the
\* container never holds more than max_size elements.
C4_BoundRespected == Len(m_container) <= cfg.max_size

\* C4's case: a producer that was blocked on the full queue has been released
\* and has inserted, and the queue is full again.
C4_Witness ==
    \E t \in Threads :
        /\ pc[t] = "notify_addition"
        /\ suspended[t]
        /\ Len(m_container) = cfg.max_size
        /\ cfg.max_size = MaxBound

NoDuplicates(s) == \A i, j \in 1..Len(s) : s[i] = s[j] => i = j

InCallOrder(s) ==
    \A i, j \in 1..Len(s) :
        (i < j /\ s[i][1] = s[j][1]) =>
            \/ s[i][2] < s[j][2]
            \/ s[i][2] = s[j][2] /\ s[i][3] < s[j][3]

\* C6: FIFO within a producer: in the sequence of all elements returned, in
\* the order the pops took them under the lock, followed by the elements still
\* queued, the elements of each producer are in the order it added them; and
\* what pops return, put together, is a prefix of what was inserted.
C6_FifoPerProducer ==
    /\ InCallOrder(delivered \o m_container)
    /\ delivered \o m_container = inserted

\* C6's case: both producers have added twice, the elements of the two are
\* interleaved, and two pops have returned them.
C6_Witness ==
    /\ Len(delivered) >= 4
    /\ calls[3] = 2 /\ pc[3] = "idle"
    /\ \E i, j, k \in 1..Len(delivered) :
        /\ i < j /\ j < k
        /\ delivered[i][1] = delivered[k][1]
        /\ delivered[i][1] # delivered[j][1]

\* The number of elements of the k-th call of thread t.
BatchSize(t, k) ==
    Cardinality({j \in 1..Len(inserted) : inserted[j][1] = t /\ inserted[j][2] = k})

\* s is a concatenation of whole batches.
WholeBatches(s) ==
    \A j \in 1..Len(s) :
        /\ s[j][3] > 1 =>
              j > 1 /\ s[j - 1] = Elem(s[j][1], s[j][2], s[j][3] - 1)
        /\ s[j][3] < BatchSize(s[j][1], s[j][2]) =>
              j < Len(s) /\ s[j + 1] = Elem(s[j][1], s[j][2], s[j][3] + 1)

\* C7: with producers that append and consumers that call pop_all /
\* try_pop_all, every container a pop returns is a concatenation of whole
\* batches, and so is what the queue holds.
C7_BatchAtomicity ==
    /\ WholeBatches(m_container)
    /\ \A t \in Threads :
        (pc[t] = "idle" /\ op[t] \in PopAllOps) => WholeBatches(ret[t].elems)

\* C7's case: one pop has returned the batches of two producers, each of
\* several elements.
C7_Witness ==
    \E t \in Threads :
        /\ pc[t] = "idle"
        /\ op[t] \in PopAllOps
        /\ Len(ret[t].elems) = 2 * MaxBatch
        /\ ret[t].elems[1][1] # ret[t].elems[Len(ret[t].elems)][1]

\* C8: pop_all() without timeout and without stop token never returns an
\* empty container.
C8_PopAllNotEmpty ==
    \A t \in Threads :
        (pc[t] = "idle" /\ op[t] = "pop_all") =>
            ret[t].kind = "container" /\ ret[t].elems # <<>>

\* C8's case: two consumers were blocked in pop_all, an append of the empty
\* batch has signalled, one consumer has returned elements and the other has
\* gone back to waiting.
C8_Witness ==
    /\ pc[3] = "idle" /\ op[3] = "pop_all" /\ suspended[3]
    /\ WaitingForData(4)
    /\ spurious = 0
    /\ m_container = <<>>
    /\ calls[1] = 2
    /\ Len(inserted) = Len(ret[3].elems)

\* C9: the non_blocking_* adds never wait on a condition variable.
C9_NonBlockingNeverSuspends ==
    \A t \in Threads : op[t] \in NonBlockingAddOps => ~suspended[t]

\* A non_blocking_* add of thread t has returned r.
Returned(t, r) == pc[t] = "idle" /\ op[t] \in NonBlockingAddOps /\ ret[t] = r

Alone(k) ==
    /\ calls[1] = k /\ pc[1] = "idle"
    /\ calls[2] = 0 /\ calls[3] = 0 /\ calls[4] = 0

C13_EmptiedAfterAdd ==
    \A t \in Threads :
        pc[t] = "notify_addition" => Len(m_container) < cfg.max_size


\* C14: no bounded queue with bound 0 becomes usable: no producer waits for
\* space on a blocking queue whose bound is 0, and no dropping queue whose
\* bound is 0 takes an add.
C14_ZeroBoundRejected ==
    \A t \in Threads :
        (Bounded /\ cfg.max_size = 0) =>
            /\ ~WaitingForSpace(t)
            /\ pc[t] # "notify_addition"


\* The next statement of thread t reads or writes m_container: the hooks and
\* the insertion of an add, the predicate of a wait (also after a wake), the
\* test for an empty container, the swap, the front removal, clear, reserve
\* and size.
Accessing(t) ==
    pc[t] \in {"handle_add", "generic_add_impl", "wait", "is_empty",
               "generic_pop_all", "generic_pop_one", "clear_locked",
               "reserve_locked", "size_locked"}

\* C15: every read and every write of the container is performed by the
\* thread that holds the mutex, so at most one thread is at such a statement,
\* and the container changes only in a step of the holder.
C15_MutualExclusion ==
    /\ [](\A t \in Threads : Accessing(t) => m_mutex = t)
    /\ [](Cardinality({t \in Threads : Accessing(t)}) <= 1)
    /\ [][m_container' # m_container =>
            /\ m_mutex \in Threads
            /\ Accessing(m_mutex)
            /\ pc'[m_mutex] # pc[m_mutex]]_vars

\* C15's case: a producer woken from the wait for space is about to test the
\* size again while the consumer that woke it waits for the mutex to read the
\* size, and a third thread has been refused the lock.
C15_Witness ==
    /\ pc[1] = "handle_add" /\ suspended[1]
    /\ pc[3] = "size"
    /\ ret[2] = Bool(FALSE) /\ pc[2] = "idle" /\ op[2] = "non_blocking_emplace"


\* C16: no notify_one / notify_all, on m_notify_addition or on
\* m_notify_removal, is issued while the notifying thread holds the mutex.
C16_SignalsAfterUnlock ==
    signal.cv # "none" => ~signal.held

\* a is b with some of its elements left out.
RECURSIVE IsSubsequence(_, _)
IsSubsequence(a, b) ==
    IF a = <<>> THEN TRUE
    ELSE IF b = <<>> THEN FALSE
    ELSE IF Head(a) = Head(b) THEN IsSubsequence(Tail(a), Tail(b))
    ELSE IsSubsequence(a, Tail(b))

OptionalPopOps == {"pop_one_timed", "pop_one_token"}

\* C18: pop_one removes exactly the oldest element and leaves the others in
\* order; a pop_one with a timeout or a stop token returns an absent value
\* exactly when the container is empty at the test it makes with the lock the
\* wait returned, and then changes nothing; no pop_one reaches the front
\* removal with an empty container.
C18_PopOne ==
    /\ [](\A t \in Threads : pc[t] = "generic_pop_one" => m_container # <<>>)
    /\ [](\A t \in Threads :
            (pc[t] = "idle" /\ op[t] \in OptionalPopOps) =>
                ret[t].kind \in {"none", "value"})
    /\ [][\A t \in Threads :
            (pc[t] = "generic_pop_one" /\ pc'[t] = "idle") =>
                /\ ret'[t] = Value(Head(m_container))
                /\ m_container' = Tail(m_container)
                /\ Len(m_container') = Len(m_container) - 1]_vars
    /\ [][\A t \in Threads :
            (op[t] \in OptionalPopOps /\ pc[t] = "is_empty" /\ pc'[t] # pc[t]) =>
                /\ m_mutex = t
                /\ (pc'[t] = "idle" /\ ret'[t] = Absent) <=> m_container = <<>>
                /\ m_container = <<>> =>
                      UNCHANGED <<m_container, m_notify_addition,
                                  m_notify_removal, inserted, delivered>>
                /\ m_container # <<>> =>
                      pc'[t] = "generic_pop_one" /\ m_mutex' = t]_vars

\* C18's case: a timed pop_one that had blocked has returned an absent value
\* after the other consumer took every element that was added.
C18_Witness ==
    /\ pc[4] = "idle" /\ op[4] = "pop_one_timed"
    /\ ret[4] = Absent
    /\ suspended[4]
    /\ inserted # <<>>
    /\ Len(delivered) = Len(inserted)

\* C19: try_pop_all and try_pop_one take the lock once, at their entry, and
\* never wait on m_notify_addition; try_pop_all returns every element present
\* (an empty container if there is none), try_pop_one the front element (an
\* absent value if there is none); on an empty queue they change nothing and
\* signal nothing.
C19_TryPops ==
    /\ [](\A t \in Threads :
            op[t] \in TryPopOps =>
                /\ ~suspended[t]
                /\ pc[t] \notin {"wait_for_data", "wait", "waiting", "reacquire"})
    /\ [][\A t \in Threads :
            (op[t] \in TryPopOps /\ m_mutex # t /\ m_mutex' = t) =>
                pc[t] \in {"try_pop_all", "try_pop_one"}]_vars
    /\ [][\A t \in Threads :
            (op[t] = "try_pop_all" /\ pc[t] = "generic_pop_all"
                /\ pc'[t] = "idle") =>
                /\ ret'[t] = Contents(m_container)
                /\ m_container' = <<>>
                /\ m_container = <<>> =>
                      /\ UNCHANGED <<m_container, m_notify_addition,
                                     m_notify_removal, inserted, delivered>>
                      /\ signal' = NoSignal]_vars
    /\ [][\A t \in Threads :
            (op[t] = "try_pop_one" /\ pc[t] = "is_empty" /\ pc'[t] # pc[t]) =>
                IF m_container = <<>>
                THEN /\ pc'[t] = "idle" /\ ret'[t] = Absent
                     /\ UNCHANGED <<m_container, m_notify_addition,
                                    m_notify_removal, inserted, delivered>>
                     /\ signal' = NoSignal
                ELSE pc'[t] = "generic_pop_one" /\ m_mutex' = t]_vars
    /\ [][\A t \in Threads :
            (op[t] = "try_pop_one" /\ pc[t] = "generic_pop_one"
                /\ pc'[t] = "idle") =>
                /\ ret'[t] = Value(Head(m_container))
                /\ m_container' = Tail(m_container)]_vars

\* C19's case: the consumer's second call, a try_pop_all, has returned an
\* empty container while the producer's add was under way; the producer has
\* since inserted.
C19_Witness ==
    /\ pc[3] = "idle"
    /\ op[3] = "try_pop_all"
    /\ ret[3] = Contents(<<>>)
    /\ calls[3] = MaxCalls
    /\ delivered = <<>>
    /\ pc[1] = "notify_addition"

\* A timed pop_all of thread t is under way.
InTimedPopAll(t) == op[t] = "pop_all_timed" /\ pc[t] # "idle"

\* C20: pop_all with a timeout returns an empty container only when the
\* timeout has been reached and the container is empty at the final test
\* under the lock; it does not wait when the container is not empty, a
\* consumer blocked in it is woken by the add that makes the container
\* non-empty, and it returns every element present; it always returns.
C20_TimedPopAll ==
    /\ [](\A t \in Threads :
            (pc[t] = "idle" /\ op[t] = "pop_all_timed") =>
                /\ ret[t].kind = "container"
                /\ ret[t].elems = <<>> => abort[t])
    /\ [](\A t \in Threads :
            (InTimedPopAll(t) /\ WaitingForData(t) /\ m_container # <<>>) =>
                \E p \in Threads : pc[p] = "notify_addition" /\ was_empty[p])
    /\ [][\A t \in Threads :
            (InTimedPopAll(t) /\ pc[t] = "wait" /\ pc'[t] # "wait"
                /\ m_container # <<>>) =>
                pc'[t] = "generic_pop_all" /\ m_mutex' = t]_vars
    /\ [][\A t \in Threads :
            (InTimedPopAll(t) /\ pc[t] = "generic_pop_all" /\ pc'[t] = "idle") =>
                /\ ret'[t] = Contents(m_container)
                /\ m_container' = <<>>
                /\ m_container = <<>> => abort[t]]_vars
    /\ InTimedPopAll(3) ~> (pc[3] = "idle")

\* C20's case: a timed pop_all that had blocked on the empty queue has
\* returned a whole batch before its timeout was reached.
C20_Witness ==
    /\ pc[3] = "idle" /\ op[3] = "pop_all_timed"
    /\ suspended[3]
    /\ ~abort[3]
    /\ spurious = 0
    /\ Len(ret[3].elems) = MaxBatch

\* A pop with a stop token of thread t is under way.
InTokenPop(t) == op[t] \in TokenPopOps /\ pc[t] # "idle"

C22_AdditionSignal ==
    /\ [][\A t \in Threads :
            (pc[t] = "generic_add_impl" /\ pc'[t] # pc[t]) =>
                /\ m_mutex = t
                /\ was_empty'[t] = (m_container = <<>>)
                /\ m_container' = m_container \o arg[t]
                /\ signal' = NoSignal]_vars
    /\ [][\A t \in Threads :
            (pc[t] = "notify_addition" /\ pc'[t] = "idle") =>
                /\ was_empty[t] => (signal'.cv = "addition" /\ signal'.by = t)
                /\ ~was_empty[t] =>
                      (signal' = NoSignal
                          /\ m_notify_addition' = m_notify_addition)]_vars
    /\ [][signal'.cv = "addition" =>
            \E t \in Threads :
                pc[t] = "notify_addition" /\ pc'[t] = "idle"]_vars

\* C22's case: a push into a full dropping queue has notified: the container
\* held elements when the add was called and was empty once the hook had
\* returned.
C22_Witness ==
    /\ signal.cv = "addition"
    /\ cfg.policy = "dropping"
    /\ ret[signal.by].n > 0
    /\ op[signal.by] = "emplace"

\* C23 as stated: notify_all exactly when the container has pop_front and
\* more than one element was added, notify_one otherwise.
C23_SignalChoice_Original ==
    signal.cv = "addition" =>
        (signal.all <=> (cfg.pop_frontable /\ Len(arg[signal.by]) > 1))

\* C23, amended: an add that found the container empty calls notify_all when
\* the container has pop_front and the add is an append (of any number of
\* elements) or the queue is the one of the module generation; it calls
\* notify_one otherwise.  notify_all wakes every waiter, notify_one exactly
\* one of them when there is one.
C23_SignalChoice ==
    /\ [](signal.cv = "addition" =>
            (signal.all <=>
                (cfg.pop_frontable
                    /\ (cfg.impl = "module" \/ op[signal.by] = "append"))))
    /\ [][signal'.cv = "addition" =>
            /\ m_notify_addition' \subseteq m_notify_addition
            /\ Cardinality(m_notify_addition \ m_notify_addition') =
                  (IF signal'.all \/ m_notify_addition = {}
                   THEN Cardinality(m_notify_addition)
                   ELSE 1)]_vars

\* C23's case: with both consumers blocked, a push into a container with
\* pop_front has woken one of them and left the other blocked.
C23_Witness ==
    /\ signal.cv = "addition"
    /\ ~signal.all
    /\ cfg.pop_frontable
    /\ op[signal.by] = "emplace"
    /\ Cardinality(m_notify_addition) = 1
    /\ \E t \in {3, 4} : pc[t] = "reacquire" /\ spurious = 0

\* The step in which thread t removes: generic_pop_all, generic_pop_one or
\* clear() with the lock, up to their return.
Removes(t) ==
    /\ pc[t] \in {"generic_pop_all", "generic_pop_one", "clear_locked"}
    /\ pc'[t] = "idle"

\* C24: on a blocking queue a removal notifies m_notify_removal if and only
\* if the container held at least max_size elements before it: notify_all
\* from pop_all, try_pop_all and clear, notify_one from pop_one and
\* try_pop_one.  A removal from a container that held fewer elements, an
\* empty one included, notifies nobody, and nothing else notifies
\* m_notify_removal.
C24_RemovalSignal ==
    /\ [][\A t \in Threads :
            Removes(t) =>
                IF Len(m_container) >= cfg.max_size
                THEN /\ signal'.cv = "removal" /\ signal'.by = t
                     /\ signal'.all = (pc[t] # "generic_pop_one")
                     /\ m_notify_removal' \subseteq m_notify_removal
                     /\ Cardinality(m_notify_removal \ m_notify_removal') =
                           (IF signal'.all \/ m_notify_removal = {}
                            THEN Cardinality(m_notify_removal)
                            ELSE 1)
                ELSE /\ signal' = NoSignal
                     /\ m_notify_removal' = m_notify_removal]_vars
    /\ [][signal'.cv = "removal" => \E t \in Threads : Removes(t)]_vars

\* C24's case: a clear() of a full queue has woken the two producers that
\* were blocked on it.
C24_Witness ==
    /\ signal.cv = "removal" /\ signal.all
    /\ op[signal.by] = "clear"
    /\ pc[1] = "reacquire" /\ pc[2] = "reacquire"
    /\ spurious = 0

\* C25: on a blocking queue whose removals are pop_all, try_pop_all and
\* clear, with a consumer that keeps calling pop_all, every producer blocked
\* in handle_add eventually completes its add; and whenever no operation is
\* in progress and size < max_size, no producer is blocked on
\* m_notify_removal.
C25_BulkRemovalsRelease ==
    /\ []((Quiescent /\ Len(m_container) < cfg.max_size)
            => m_notify_removal = {})
    /\ \A p \in {1, 2} :
        WaitingForSpace(p) ~>
            (pc[p] = "idle" /\ Range(arg[p]) \subseteq Range(inserted))

\* C25's case: both producers were blocked on the full queue, a bulk removal
\* has released them, and both have completed their adds.
C25_Witness ==
    /\ suspended[1] /\ suspended[2]
    /\ pc[1] = "idle" /\ pc[2] = "idle"
    /\ calls[1] = MaxCalls
    /\ spurious = 0
    /\ Len(inserted) = MaxCalls + MaxCalls - 1

\* C26: on a blocking queue an append of k elements is admitted exactly when
\* size < max_size where handle_add tests it, whatever k is, and its whole
\* batch is then inserted in one step under the same lock; so with batches of
\* at most MaxBatch elements the container never holds more than
\* max_size - 1 + MaxBatch elements (and may hold more than max_size).
C26_CheckBeforeInsert ==
    /\ [](cfg.policy = "blocking" =>
            Len(m_container) <= cfg.max_size - 1 + MaxBatch)
    /\ [][\A t \in Threads :
            (cfg.policy = "blocking" /\ op[t] = "append"
                /\ pc[t] = "handle_add" /\ pc'[t] # pc[t]) =>
                IF Len(m_container) < cfg.max_size
                THEN pc'[t] = "generic_add_impl" /\ m_mutex' = t
                ELSE pc'[t] = "waiting" /\ t \in m_notify_removal']_vars
    /\ [][\A t \in Threads :
            (cfg.policy = "blocking" /\ op[t] = "append"
                /\ pc[t] = "generic_add_impl" /\ pc'[t] # pc[t]) =>
                /\ Len(m_container) < cfg.max_size
                /\ m_container' = m_container \o arg[t]]_vars

\* C26's case: an append of a full batch was admitted into a blocking queue
\* one element short of the largest bound, and the container holds more
\* elements than the bound.
C26_Witness ==
    /\ cfg.policy = "blocking"
    /\ cfg.max_size = MaxBound
    /\ Len(m_container) = MaxBound - 1 + MaxBatch
    /\ Len(m_container) > cfg.max_size
    /\ \E t \in Threads :
        pc[t] = "notify_addition" /\ op[t] = "append" /\ Len(arg[t]) = MaxBatch

\* The step in which thread t inserts the elements of its add.
Inserts(t) == pc[t] = "generic_add_impl" /\ pc'[t] # pc[t]

C28_AddNeverWaits ==
    /\ [](\A t \in Threads :
            op[t] \in AllAddOps =>
                /\ pc[t] \notin {"waiting", "reacquire"}
                /\ ~suspended[t]
                /\ t \notin m_notify_removal)
    /\ [][\A t \in Threads :
            (pc[t] = "handle_add" /\ pc'[t] # pc[t]) =>
                pc'[t] = "generic_add_impl" /\ m_mutex' = t]_vars
    /\ \A p \in {1, 2} :
        (pc[p] # "idle") ~>
            (pc[p] = "idle" /\ Range(arg[p]) \subseteq Range(inserted))

\* C28's case: a push into a dropping queue that holds max_size elements,
\* and more after an append, has gone through and returned.
C28_Witness ==
    /\ cfg.policy = "dropping"
    /\ pc[1] = "idle" /\ op[1] = "emplace"
    /\ ret[1].n >= cfg.max_size
    /\ cfg.max_size = MaxBound
    /\ ~suspended[1]
    /\ m_container = arg[1]

\* C29: clear() never waits on a condition variable; its step under the lock
\* leaves the container empty, returns the removed elements to nobody (they
\* are counted as discarded, and no pop returns them later), and calls
\* handle_remove_all with the size before clearing: on a blocking queue that
\* held at least max_size elements every blocked producer is woken, and
\* nobody otherwise.  It notifies nobody on m_notify_addition and leaves
\* max_size as it was.
C29_Clear ==
    /\ [](\A t \in Threads :
            op[t] = "clear" =>
                /\ pc[t] \in {"idle", "clear", "clear_locked"}
                /\ ~suspended[t]
                /\ ret[t] = Void)
    /\ [][\A t \in Threads :
            (pc[t] = "clear_locked" /\ pc'[t] # pc[t]) =>
                /\ m_mutex = t /\ m_mutex' = NoThread
                /\ pc'[t] = "idle"
                /\ m_container' = <<>>
                /\ delivered' = delivered
                /\ discarded' = discarded + Len(m_container)
                /\ cfg' = cfg
                /\ m_notify_addition' = m_notify_addition
                /\ signal'.cv # "addition"
                /\ IF Len(m_container) >= cfg.max_size
                   THEN /\ m_notify_removal' = {}
                        /\ signal'.cv = "removal" /\ signal'.all
                        /\ signal'.by = t
                        /\ \A p \in m_notify_removal : pc'[p] = "reacquire"
                   ELSE /\ m_notify_removal' = m_notify_removal
                        /\ signal' = NoSignal]_vars
    /\ [](/\ Len(inserted) = Len(delivered) + discarded + Len(m_container)
          /\ NoDuplicates(delivered \o m_container)
          /\ Range(delivered \o m_container) \subseteq Range(inserted))

\* C29's case: a clear() of a full blocking queue has discarded its elements
\* and woken both producers, which were blocked on it.
C29_Witness ==
    /\ signal = [cv |-> "removal", all |-> TRUE, by |-> 4, held |-> TRUE]
    /\ op[4] = "clear"
    /\ discarded = cfg.max_size
    /\ m_container = <<>>
    /\ pc[1] = "reacquire" /\ pc[2] = "reacquire"
    /\ m_notify_removal = {}
    /\ spurious = 0

\* C30: a producer blocked in handle_add on a blocking queue is woken when a
\* stop is requested, and its add is aborted: the producer is no longer
\* blocked on m_notify_removal, it does not go on to the insertion, and none
\* of its elements is inserted.
C30_CancellableAdd ==
    \A p \in Threads :
        (op[p] \in AllAddOps /\ abort[p]) =>
            /\ ~WaitingForSpace(p)
            /\ pc[p] \notin {"generic_add_impl", "notify_addition"}
            /\ Range(arg[p]) \cap Range(inserted) = {}

\* A consumer that has found the container empty and is not a waiter yet.
BetweenTestAndWait(t) == pc[t] = "wait_block"

\* C31 as stated: while a consumer is between its test and its wait, no
\* producer can insert (the consumer holds the mutex) and no producer sends
\* its notification.
C31_TestThenWait_Original ==
    \A c \in Threads :
        BetweenTestAndWait(c) => (m_mutex = c /\ signal.cv # "addition")

\* C31, amended: while a consumer is between its test and its wait it holds
\* the mutex, so no add inserts and the container stays empty; a producer may
\* send its notification then, and only for an insertion that came before
\* the consumer's test.
C31_TestThenWait ==
    /\ [](\A c \in Threads :
            BetweenTestAndWait(c) =>
                /\ m_mutex = c
                /\ m_container = <<>>
                /\ \A p \in Threads : pc[p] # "generic_add_impl"
                /\ signal.cv = "addition" =>
                      (pc[signal.by] = "idle"
                          /\ Range(arg[signal.by]) \subseteq Range(inserted)))
    /\ [][\A c \in Threads :
            BetweenTestAndWait(c) =>
                /\ inserted' = inserted
                /\ m_container' = m_container
                /\ pc'[c] \in {"wait_block", "waiting"}]_vars

\* C31's case: a producer has sent the notification of a push, whose element
\* the other consumer had taken, while a consumer was between its test and
\* its wait.
C31_Witness ==
    /\ BetweenTestAndWait(4)
    /\ signal.cv = "addition"
    /\ op[signal.by] = "emplace"
    /\ delivered = arg[signal.by]

\* C32: pop_all / try_pop_all return exactly the elements the container held
\* at the swap, in order, and leave the queue's container empty, whatever
\* the storage argument holds.
C32_Drain ==
    [][\A t \in Threads :
        (pc[t] = "generic_pop_all" /\ pc'[t] = "idle") =>
            /\ ret'[t] = Contents(m_container)
            /\ m_container' = <<>>]_vars

\* C33: with waiters that may wake without a notification, a blocking
\* pop_one() / pop_all() still removes only from a container that is not
\* empty, and a producer on a blocking queue still inserts only while
\* size < max_size: a woken thread tests its predicate again under the lock.
C33_SpuriousWakeups ==
    /\ [][\A t \in Threads :
            (Removes(t) /\ op[t] \in BlockingPopOps) =>
                (m_container # <<>> /\ m_mutex = t)]_vars
    /\ [][\A t \in Threads :
            Inserts(t) =>
                (Len(m_container) < cfg.max_size /\ m_mutex = t)]_vars
    /\ [][\A t \in Threads :
            (pc[t] = "reacquire" /\ pc'[t] # pc[t]) =>
                pc'[t] \in {"wait", "handle_add"}]_vars

\* C33's case: the consumer, blocked on the queue nobody has added to, was
\* woken without a notification and is blocked again.
C33_Witness ==
    /\ spurious = MaxSpurious
    /\ inserted = <<>>
    /\ WaitingForData(3)
    /\ op[3] \in BlockingPopOps
    /\ \A t \in Threads : t # 3 => pc[t] = "idle"

\* C34: on an unbounded queue with several producers and consumers in
\* pop_all, one of which keeps calling it, every added element is eventually
\* returned by a pop_all; and in no state is every consumer blocked on
\* m_notify_addition while the container holds elements and no add is in
\* progress.
C34_EventuallyDelivered ==
    /\ []((WaitingForData(3) /\ WaitingForData(4) /\ m_container # <<>>) =>
            \E p \in {1, 2} : pc[p] # "idle")
    /\ []<>(Range(inserted) \subseteq Range(delivered))
    /\ [](NoDuplicates(delivered) /\ Range(delivered) \subseteq Range(inserted))

\* C34's case: both consumers were blocked on the empty queue, both
\* producers have added, and every element has been returned, some to each
\* consumer.
C34_Witness ==
    /\ pc[3] = "idle" /\ pc[4] = "idle"
    /\ suspended[3] /\ suspended[4]
    /\ ret[3].elems # <<>> /\ ret[4].elems # <<>>
    /\ Len(delivered) = MaxCalls - 1 + MaxBatch
    /\ spurious = 0

\* C35: size() returns the number of elements the container holds while
\* size() holds the lock; size() and reserve() change neither the elements
\* nor their order, notify nobody, wake no waiter, and never wait on a
\* condition variable.
C35_Observers ==
    /\ [](\A t \in Threads :
            op[t] \in ObserverOps =>
                /\ pc[t] \in {"idle", "size", "size_locked", "reserve",
                               "reserve_locked"}
                /\ ~suspended[t])
    /\ [][\A t \in Threads :
            (op[t] \in ObserverOps /\ pc'[t] # pc[t]) =>
                /\ m_container' = m_container
                /\ m_notify_addition' = m_notify_addition
                /\ m_notify_removal' = m_notify_removal
                /\ signal' = NoSignal
                /\ \A u \in Threads : u # t => pc'[u] = pc[u]
                /\ history_vars' = history_vars]_vars
    /\ [][\A t \in Threads :
            (pc[t] = "size_locked" /\ pc'[t] # pc[t]) =>
                /\ m_mutex = t /\ m_mutex' = NoThread
                /\ ret'[t] = Size(Len(m_container))]_vars
    /\ [][\A t \in Threads :
            (pc[t] = "reserve_locked" /\ pc'[t] # pc[t]) =>
                /\ m_mutex = t /\ m_mutex' = NoThread
                /\ ret'[t] = Void]_vars

\* C35's case: size() has returned the size of a full blocking queue, from
\* which elements had been removed before, and the producer blocked on the
\* queue is blocked still.
C35_Witness ==
    /\ pc[3] = "idle" /\ op[3] = "size"
    /\ ret[3] = Size(cfg.max_size)
    /\ Len(m_container) = cfg.max_size
    /\ cfg.policy = "blocking"
    /\ m_notify_removal # {}
    /\ Len(inserted) > Len(m_container)

\* C36: the mutex is held only by a thread that is at a statement it runs
\* under the lock: a thread that has returned, a thread blocked on
\* m_notify_addition or m_notify_removal and a thread that was woken and has
\* not taken the mutex again do not hold it.  So the mutex is free whenever
\* every thread inside the queue is blocked, and the other threads can take
\* it.
C36_MutexNotHeldWhileBlocked ==
    /\ [](\A t \in Threads :
            pc[t] \in {"idle", "waiting", "reacquire", "notify_addition"} =>
                m_mutex # t)
    /\ [](m_mutex \in Threads => Accessing(m_mutex))
    /\ []((\A t \in Threads : ~Accessing(t)) => m_mutex = NoThread)

\* C36's case: while a producer was blocked on the full queue the consumer
\* took the mutex and removed, and while the consumer is blocked on the
\* empty queue that producer is at its insertion, with the mutex.
C36_Witness ==
    /\ WaitingForData(3)
    /\ calls[3] = MaxCalls
    /\ delivered # <<>>
    /\ pc[1] = "generic_add_impl" /\ suspended[1]
    /\ m_mutex = 1
    /\ spurious = 0

\* C37: was_empty is read after handle_add has returned: a producer that was
\* blocked on a full blocking queue and inserts into the container the
\* consumers have emptied, and an add whose dropping hook has cleared the
\* container, find it empty and notify m_notify_addition, and a consumer
\* that is waiting for data then is woken.
C37_EmptinessAfterHook ==
    /\ [][\A t \in Threads :
            Inserts(t) =>
                /\ was_empty'[t] = (m_container = <<>>)
                /\ (cfg.policy = "dropping" /\ ret[t].n > 0) =>
                      was_empty'[t]]_vars
    /\ [][\A t \in Threads :
            (pc[t] = "notify_addition" /\ pc'[t] = "idle" /\ was_empty[t]) =>
                /\ signal'.cv = "addition" /\ signal'.by = t
                /\ m_notify_addition # {} =>
                      \E c \in m_notify_addition :
                          /\ c \notin m_notify_addition'
                          /\ pc'[c] = "reacquire"]_vars

\* C37's case: the producer was blocked on the full blocking queue; the
\* consumer woken by its first push emptied the queue; the second consumer,
\* waiting for data, has been woken by the notify_one of the second push.
C37_Witness ==
    /\ cfg.policy = "blocking" /\ ~cfg.pop_frontable
    /\ signal.cv = "addition" /\ signal.by = 1
    /\ suspended[1] /\ calls[1] = MaxCalls
    /\ suspended[3] /\ pc[3] = "idle" /\ ret[3].elems # <<>>
    /\ suspended[4] /\ pc[4] = "reacquire"
    /\ spurious = 0

\* C38: a thread has a handle of a locked_access object exactly while it
\* owns the object's mutex, so at most one handle exists at any time and a
\* locked() call returns its handle only when no other handle exists;
\* unlocked() returns the value and leaves the mutex alone, whoever owns it.
C38_LockedAccess ==
    /\ [](\A t \in Threads : t \in Handles <=> m_mutex = t)
    /\ [](Cardinality(Handles) <= 1)
    /\ [][\A t \in Threads :
            (pc[t] = "locked_t" /\ pc'[t] = "value") => Handles = {}]_vars
    /\ [][\A t \in Threads :
            (pc[t] = "idle" /\ op'[t] = "unlocked" /\ calls'[t] = calls[t] + 1) =>
                /\ ret'[t] = Contents(m_container)
                /\ m_mutex' = m_mutex]_vars

\* C38's case: thread 1 has the handle of its first locked() call and has
\* assigned to the value through it, thread 3 is blocked in locked(), and
\* unlocked() has returned to thread 2 the value thread 1 assigned.
C38_Witness ==
    /\ pc[1] = "value" /\ calls[1] = 1 /\ m_mutex = 1
    /\ m_container = <<Elem(1, 1, 1)>>
    /\ pc[3] = "locked_t"
    /\ op[2] = "unlocked" /\ ret[2] = Contents(m_container)

\* C39: the move constructor of a boost queue gives the new queue the
\* source's elements when no operation is running on the source, a mutex
\* nobody owns and condition variables nobody waits on, whoever owns the
\* source's mutex and waits on its condition variables; the source's mutex
\* keeps its owner, its condition variables keep their waiters, and no
\* thread is woken.
C39_MoveConstruction ==
    /\ [][(~moved_to.constructed /\ moved_to'.constructed) =>
            /\ moved_to'.m_mutex = NoThread
            /\ moved_to'.m_notify_addition = {}
            /\ moved_to'.m_notify_removal = {}
            /\ m_mutex = NoThread =>
                  /\ moved_to'.m_container = m_container
                  /\ m_container' = <<>>
            /\ m_mutex' = m_mutex
            /\ m_notify_addition' = m_notify_addition
            /\ m_notify_removal' = m_notify_removal
            /\ pc' = pc]_vars
    /\ [](moved_to.constructed =>
            /\ moved_to.m_mutex = NoThread
            /\ moved_to.m_notify_addition = {}
            /\ moved_to.m_notify_removal = {})

\* C39's case: the queue was moved from while a thread owned its mutex, a
\* consumer waited for data and a producer waited for space; both still wait.
C39_Witness ==
    /\ moved_to.constructed
    /\ moved_from.m_mutex \in Threads
    /\ moved_from.m_notify_addition # {}
    /\ moved_from.m_notify_removal # {}
    /\ m_notify_addition = moved_from.m_notify_addition
    /\ m_notify_removal = moved_from.m_notify_removal
    /\ m_mutex = moved_from.m_mutex

=============================================================================
